---- MODULE Spec2Model ----
(***************************************************************************)
(* DeltaScan pipeline: the rate-limited gateway (RateLimiter), the         *)
(* response cache (PolymarketService.getOrFetch) and the scan orchestrator *)
(* (MarketScannerService), each as a state machine over the steps that run *)
(* atomically between two awaits of the TypeScript source.                 *)
(***************************************************************************)
EXTENDS Integers, Sequences, FiniteSets, TLC

VARIABLES
    now,                \* Date.now(), in ms
    queue,              \* RateLimiter.queue: the wrappers not yet shifted, by operation id
    processing,         \* RateLimiter.processing
    requestTimestamps,  \* RateLimiter.requestTimestamps
    loops,              \* the executions of processQueue past its guard, each at an
                        \* await; `old` marks the ones a clear() found running
    enqCount,           \* number of enqueue calls made so far; call k enqueues operation k
    opState,            \* per operation: "new", "queued", "running", "done", or
                        \* "dropped" once clear() discarded its wrapper
    outcome,            \* per operation: what the operation itself did ("none", "ok", "fail")
    promise,            \* per operation: the promise enqueue returned
    dispatched,         \* history: the dispatches, in order, <<op, at, waited>>,
                        \* each with the time its operation settled (doneAt)
    cache,              \* PolymarketService.cache: per key, NoEntry or [data, timestamp]
    calls,              \* the getOrFetch calls made so far, in the order they
                        \* started: those of the cache alone, or those of the
                        \* public methods of PolymarketService
    fetches,            \* history: the fetcher invocations, in order, <<call, key, at>>
    markets,            \* MarketScannerService.markets: a Map, in insertion order
    bets,               \* MarketScannerService.bets: a Map, in insertion order
    arbitrageOpportunities,  \* MarketScannerService.arbitrageOpportunities
    cycles,             \* the scanAllPlatforms calls made so far
    lastBatch,          \* history: the batch the latest observed store merged
    lastDropped,        \* history: how many records of the latest upstream
                        \* answer to a scan the validity filter drops
    lastPass,           \* history: the detection passes observed; the bets
                        \* the latest was applied to, the list it made and
                        \* the length of the list it replaced
    transformed,        \* history: the latest raw record, or batch of raw
                        \* records, given to the transformer, with what its
                        \* methods return for it
    computed,           \* history: the latest bets and amounts given to the
                        \* capital functions, with what each returns or throws
    clears,             \* history: the times at which a clearing method
                        \* (clearCache, RateLimiter.clear) was called
    reads               \* history: how many calls of the reading methods
                        \* (getStatus, healthCheck, getActiveMarkets, the
                        \* getters of the scanner) were made, and what the
                        \* latest of them returned

rlVars == <<queue, processing, requestTimestamps, loops, enqCount,
            opState, outcome, promise, dispatched>>

cacheVars == <<cache, calls, fetches>>

scanVars == <<markets, bets, arbitrageOpportunities, cycles>>

\* what the specifications that observe one operation record about it
readVars == <<clears, reads>>

obsVars == <<lastBatch, lastDropped, lastPass, transformed, computed, readVars>>

vars == <<now, rlVars, cacheVars, scanVars, obsVars>>

\* what a step of the RateLimiter alone leaves unchanged
notRL == <<cacheVars, scanVars, obsVars>>
\* what a step of the cache alone leaves unchanged
notCache == <<rlVars, scanVars, obsVars>>
\* what a step of the scanner alone leaves unchanged
notScan == <<now, rlVars, cacheVars, obsVars>>
\* what a step of the scanner leaves unchanged outside the scanner
outsideScan == <<now, rlVars, cacheVars>>

----------------------------------------------------------------------------
(* Bounds of the model *)

\* operations enqueued in one run
MaxOps == 4
\* the clock is advanced freely only up to this time; timers are always served
MaxTime == 60000
\* the quota the limiter is constructed with (100 in PolymarketService)
maxRequestsPerMinute == 2

(* Program constants *)

\* config/index.ts:119, the rolling window
WindowMs == 60000
\* config/index.ts:129, the buffer added to a quota wait
BufferMs == 100
\* PolymarketTransformer.ts:293, the band of the price sum (0.8 and 1.2), in cents
MinPriceSum == 80
MaxPriceSum == 120
\* PolymarketTransformer.ts:304, the liquidity floor
MinLiquidity == 100
\* PolymarketAPIClient.ts:411, the limit scanPolymarket asks for
ScanLimit == 100
\* PolymarketService.ts:40, the minimum delay the service configures
minDelayMs == 100

\* getOrFetch calls made in one run
MaxCalls == 3
\* distinct cache keys
MaxKeys == 1
\* the clock of the cache runs are advanced up to this time
CacheMaxTime == 450000
\* the clock of the scan runs is advanced up to this time: the entry of a scan
\* is seen fresh, and expired at the age of the TTL
ScanMaxTime == 300000
\* PolymarketService.ts:26, the TTL every caller passes to getOrFetch
defaultCacheTTL == 300000
\* bound on the clearCache calls
MaxClears == 1
\* enqueue calls made in one run with clear calls
MaxResetOps == 3
\* bound on the calls of reading methods
MaxReads == 1

\* scanAllPlatforms calls made in one run
MaxCycles == 2
\* distinct upstream market ids
MaxMarkets == 2
\* detection passes observed in one run
MaxPasses == 2
\* elements of the arrays outcomePrices is written as
MaxElements == 2
\* records in one upstream answer
MaxBatch == 2
\* getActiveMarkets calls made in one run
MaxActiveCalls == 2
\* calls of the public methods of the service, those of the scan cycles
\* included
MaxServiceCalls == 2
\* calls of the public methods made beside those a specification is about
MaxOutsideCalls == 1

Ops == 1..MaxOps
Keys == 1..MaxKeys
MarketIds == 1..MaxMarkets
\* Yes and No prices of an upstream record, in cents
PricePairs == {<<40, 60>>, <<55, 45>>}
\* prices whose sum is outside the band of isMarketValid
OffBandPricePairs == {<<30, 30>>}
\* how far a clock step of the cache runs moves: half a TTL, so that entries are
\* seen younger than the TTL, aged exactly the TTL, and older
CacheDeltas == {150000}
\* how far a free clock step moves: within the window, and a full window
Deltas == {30000}

----------------------------------------------------------------------------
(* RateLimiter *)

\* the filter of waitIfNeeded, cleanupTimestamps and getStatus
RecentRequests(ts, t) == SelectSeq(ts, LAMBDA x : x > t - WindowMs)

\* a limiter whose quota test is `>` instead of `>=`
WaitTimeLateQuota(ts, t) ==
    LET recentRequests == RecentRequests(ts, t) IN
    IF Len(recentRequests) > maxRequestsPerMinute
    THEN LET waitTime == recentRequests[1] + WindowMs - t + BufferMs IN
         IF waitTime > 0 THEN waitTime ELSE 0
    ELSE 0

\* waitIfNeeded up to its await: the time it sleeps, 0 when it does not sleep
WaitTime(ts, t) ==
    LET recentRequests == RecentRequests(ts, t) IN
    IF Len(recentRequests) >= maxRequestsPerMinute
    THEN LET waitTime == recentRequests[1] + WindowMs - t + BufferMs IN
         IF waitTime > 0 THEN waitTime ELSE 0
    ELSE 0

cleanupTimestamps(ts, t) == RecentRequests(ts, t)

\* a limiter that takes the newest wrapper (pop) instead of the oldest
ShiftNewest(q) == [request |-> q[Len(q)], rest |-> SubSeq(q, 1, Len(q) - 1)]

\* `this.queue.shift()` on a non-empty queue
Shift(q) == [request |-> Head(q), rest |-> Tail(q)]

RemoveAt(s, i) == SubSeq(s, 1, i - 1) \o SubSeq(s, i + 1, Len(s))

\* the head of the while loop with a non-empty queue: waitIfNeeded is called and
\* runs to its sleep, or returns and the loop awaits its resolved promise
LoopAtWait(ts, t) ==
    LET w == WaitTime(ts, t) IN
    [pc |-> IF w > 0 THEN "waitSleep" ELSE "afterWait",
     wakeAt |-> t + w, op |-> 0, waited |-> w > 0, old |-> FALSE]

\* a loop that ends without `this.processing = false`
WhileHeadStaysBusy(i, q) ==
    IF Len(q) > 0
    THEN /\ loops' = [loops EXCEPT ![i] =
                [LoopAtWait(requestTimestamps, now) EXCEPT !.old = loops[i].old]]
         /\ UNCHANGED processing
    ELSE /\ loops' = RemoveAt(loops, i)
         /\ UNCHANGED processing

\* `while (this.queue.length > 0)` evaluated by loop i with queue q
WhileHead(i, q) ==
    IF Len(q) > 0
    THEN /\ loops' = [loops EXCEPT ![i] =
                [LoopAtWait(requestTimestamps, now) EXCEPT !.old = loops[i].old]]
         /\ UNCHANGED processing
    ELSE /\ loops' = RemoveAt(loops, i)
         /\ processing' = FALSE

\* a processQueue that does not set `this.processing = true`
processQueueUnflagged(q) ==
    IF processing \/ Len(q) = 0
    THEN UNCHANGED <<processing, loops>>
    ELSE /\ UNCHANGED processing
         /\ loops' = Append(loops, LoopAtWait(requestTimestamps, now))

\* processQueue called from enqueue, with the queue q that enqueue just extended
processQueue(q) ==
    IF processing \/ Len(q) = 0
    THEN UNCHANGED <<processing, loops>>
    ELSE /\ processing' = TRUE
         /\ loops' = Append(loops, LoopAtWait(requestTimestamps, now))

Enqueue ==
    /\ enqCount < MaxOps
    /\ LET o == enqCount + 1 IN
       /\ enqCount' = o
       /\ queue' = Append(queue, o)
       /\ opState' = [opState EXCEPT ![o] = "queued"]
       /\ promise' = [promise EXCEPT ![o] = "pending"]
       /\ IF ~processing
          THEN processQueue(queue')
          ELSE UNCHANGED <<processing, loops>>
    /\ UNCHANGED <<now, requestTimestamps, outcome, dispatched>>

\* the sleep of waitIfNeeded elapses; the loop resumes after `await this.waitIfNeeded()`
WakeWait(i) ==
    /\ loops[i].pc = "waitSleep"
    /\ now >= loops[i].wakeAt
    /\ loops' = [loops EXCEPT ![i].pc = "afterWait"]
    /\ UNCHANGED <<now, queue, processing, requestTimestamps, enqCount,
                   opState, outcome, promise, dispatched>>

\* the doneAt of a dispatch whose operation has not settled
NotDone == 0 - 1

\* the history once operation o has settled at time t
SettledAt(d, o, t) ==
    [k \in DOMAIN d |-> IF d[k].op = o THEN [d[k] EXCEPT !.doneAt = t] ELSE d[k]]

\* lines 88-100: shift, record the timestamp, clean up, start the request
Dispatch(i) ==
    /\ loops[i].pc = "afterWait"
    /\ IF Len(queue) = 0
       THEN /\ loops' = RemoveAt(loops, i)
            /\ processing' = FALSE
            /\ UNCHANGED <<queue, requestTimestamps, opState, dispatched>>
       ELSE LET request == Shift(queue).request IN
            /\ queue' = Shift(queue).rest
            /\ requestTimestamps' =
                   cleanupTimestamps(Append(requestTimestamps, now), now)
            /\ opState' = [opState EXCEPT ![request] = "running"]
            /\ loops' = [loops EXCEPT ![i].pc = "running", ![i].op = request]
            /\ dispatched' = Append(dispatched,
                   [op |-> request, at |-> now, waited |-> loops[i].waited,
                    doneAt |-> NotDone, byOld |-> loops[i].old])
            /\ UNCHANGED processing
    /\ UNCHANGED <<now, enqCount, outcome, promise>>

\* a limiter in which the wrapper rethrows and the loop has no catch: a failure
\* rejects the caller's promise and ends processQueue where it stands
RequestSettlesUncaught(i, result) ==
    /\ loops[i].pc = "running"
    /\ LET o == loops[i].op IN
       /\ outcome' = [outcome EXCEPT ![o] = result]
       /\ promise' = [promise EXCEPT
              ![o] = IF result = "ok" THEN "resolved" ELSE "rejected"]
       /\ opState' = [opState EXCEPT ![o] = "done"]
       /\ dispatched' = SettledAt(dispatched, o, now)
    /\ loops' = IF result = "ok" THEN [loops EXCEPT ![i].pc = "afterOp"]
                ELSE RemoveAt(loops, i)
    /\ UNCHANGED <<now, queue, processing, requestTimestamps, enqCount>>

\* the wrapper enqueue built (lines 57-64): the operation settles, the wrapper
\* resolves or rejects the caller's promise and itself resolves
RequestSettles(i, result) ==
    /\ loops[i].pc = "running"
    /\ LET o == loops[i].op IN
       /\ outcome' = [outcome EXCEPT ![o] = result]
       /\ promise' = [promise EXCEPT
              ![o] = IF result = "ok" THEN "resolved" ELSE "rejected"]
       /\ opState' = [opState EXCEPT ![o] = "done"]
       /\ dispatched' = SettledAt(dispatched, o, now)
    /\ loops' = [loops EXCEPT ![i].pc = "afterOp"]
    /\ UNCHANGED <<now, queue, processing, requestTimestamps, enqCount>>

\* lines 105-109: the minimum delay, or straight back to the loop head
AfterRequest(i) ==
    /\ loops[i].pc = "afterOp"
    /\ IF minDelayMs > 0 /\ Len(queue) > 0
       THEN /\ loops' = [loops EXCEPT ![i].pc = "delaySleep",
                                      ![i].wakeAt = now + minDelayMs]
            /\ UNCHANGED processing
       ELSE WhileHead(i, queue)
    /\ UNCHANGED <<now, queue, requestTimestamps, enqCount,
                   opState, outcome, promise, dispatched>>

\* the minimum delay elapses
WakeDelay(i) ==
    /\ loops[i].pc = "delaySleep"
    /\ now >= loops[i].wakeAt
    /\ WhileHead(i, queue)
    /\ UNCHANGED <<now, queue, requestTimestamps, enqCount,
                   opState, outcome, promise, dispatched>>

\* the timers that have not elapsed
PendingTimers ==
    {loops[i].wakeAt : i \in {j \in 1..Len(loops) :
        loops[j].pc \in {"waitSleep", "delaySleep"} /\ loops[j].wakeAt > now}}

Min(S) == CHOOSE x \in S : \A y \in S : x <= y

\* time passes: freely (a timer may be served late), within the model's horizon
Tick(d) ==
    /\ now + d <= MaxTime
    /\ now' = now + d
    /\ UNCHANGED rlVars

\* time passes until the earliest pending timer is due
AdvanceToTimer ==
    /\ PendingTimers # {}
    /\ now' = Min(PendingTimers)
    /\ UNCHANGED rlVars

RLInit ==
    /\ now = 0
    /\ queue = <<>>
    /\ processing = FALSE
    /\ requestTimestamps = <<>>
    /\ loops = <<>>
    /\ enqCount = 0
    /\ opState = [o \in Ops |-> "new"]
    /\ outcome = [o \in Ops |-> "none"]
    /\ promise = [o \in Ops |-> "none"]
    /\ dispatched = <<>>

\* the cache of a service on which getOrFetch has not been called
CacheInit ==
    /\ cache = <<>>
    /\ calls = <<>>
    /\ fetches = <<>>

\* a scanner that has not scanned
ScanInit ==
    /\ markets = <<>>
    /\ bets = <<>>
    /\ arbitrageOpportunities = <<>>
    /\ cycles = <<>>

\* the state after construction
ObsInit ==
    /\ lastBatch = <<>>
    /\ lastDropped = 0
    /\ lastPass = [count |-> 0, before |-> 0, bets |-> <<>>, list |-> <<>>]
    /\ transformed = <<>>
    /\ computed = <<>>
    /\ clears = <<>>
    /\ reads = [count |-> 0, last |-> <<>>]

Init == RLInit /\ CacheInit /\ ScanInit /\ ObsInit

\* a RateLimiter alone, fed by enqueue calls at arbitrary times

Next ==
    \/ Enqueue /\ UNCHANGED notRL
    \/ \E i \in 1..Len(loops) : WakeWait(i) /\ UNCHANGED notRL
    \/ \E i \in 1..Len(loops) : Dispatch(i) /\ UNCHANGED notRL
    \/ \E i \in 1..Len(loops), r \in {"ok", "fail"} :
           RequestSettles(i, r) /\ UNCHANGED notRL
    \/ \E i \in 1..Len(loops) : AfterRequest(i) /\ UNCHANGED notRL
    \/ \E i \in 1..Len(loops) : WakeDelay(i) /\ UNCHANGED notRL
    \/ \E d \in Deltas : Tick(d) /\ UNCHANGED notRL
    \/ AdvanceToTimer /\ UNCHANGED notRL

Spec == Init /\ [][Next]_vars

\* clear(), lines 181-186: the wrappers still queued are discarded with the
\* array that held them; the executions of processQueue at an await go on
Clear ==
    /\ Len(clears) < MaxClears
    /\ queue' = <<>>
    /\ requestTimestamps' = <<>>
    /\ processing' = FALSE
    /\ opState' = [o \in Ops |->
           IF opState[o] = "queued" THEN "dropped" ELSE opState[o]]
    /\ loops' = [i \in DOMAIN loops |-> [loops[i] EXCEPT !.old = TRUE]]
    /\ clears' = Append(clears, now)
    /\ UNCHANGED <<now, enqCount, outcome, promise, dispatched>>

\* the RateLimiter under enqueue and clear calls at arbitrary times
ResetNext ==
    \/ Next /\ enqCount' <= MaxResetOps
    \/ /\ Clear
       /\ UNCHANGED <<cacheVars, scanVars, lastBatch, lastDropped, lastPass,
                      transformed, computed, reads>>

ResetSpec == Init /\ [][ResetNext]_vars

\* a getStatus that counts every recorded timestamp
getStatusUnfiltered(q, ts, p, t) ==
    [queueLength |-> Len(q), requestsInLastMinute |-> Len(ts), processing |-> p]

\* what getStatus returns at time t for queue q, timestamps ts and flag p
getStatus(q, ts, p, t) ==
    [queueLength |-> Len(q),
     requestsInLastMinute |-> Len(RecentRequests(ts, t)),
     processing |-> p]

\* a call of getStatus (through getRateLimiterStatus): it assigns no field
GetStatus ==
    /\ reads.count < MaxReads
    /\ reads' = [count |-> reads.count + 1,
                 last |-> <<[method |-> "getStatus",
                             value |-> getStatus(queue, requestTimestamps,
                                                 processing, now)]>>]
    /\ UNCHANGED <<now, rlVars>>

\* the RateLimiter with its status read at arbitrary times
StatusNext ==
    \/ Next
    \/ /\ GetStatus
       /\ UNCHANGED <<cacheVars, scanVars, lastBatch, lastDropped, lastPass,
                      transformed, computed, clears>>

StatusSpec == Init /\ [][StatusNext]_vars

\* PolymarketService.healthCheck up to the request it sends: it calls
\* apiClient.healthCheck, which sends GET /health at once; `value` is what the
\* call will return, true for an answer and false for a failure
HealthCheck(answered) ==
    /\ reads.count < MaxReads
    /\ reads' = [count |-> reads.count + 1,
                 last |-> <<[method |-> "healthCheck", at |-> now,
                             value |-> answered]>>]
    /\ UNCHANGED <<now, rlVars>>

\* a step of a drain loop: timers that are due fire, continuations run, and
\* every operation itself terminates
LoopStep ==
    /\ \/ \E i \in 1..Len(loops) : WakeWait(i)
       \/ \E i \in 1..Len(loops) : Dispatch(i)
       \/ \E i \in 1..Len(loops), r \in {"ok", "fail"} : RequestSettles(i, r)
       \/ \E i \in 1..Len(loops) : AfterRequest(i)
       \/ \E i \in 1..Len(loops) : WakeDelay(i)
    /\ UNCHANGED notRL

\* the event loop runs every continuation that is ready, and time passes
FairSpec ==
    Spec /\ WF_vars(LoopStep) /\ WF_vars(AdvanceToTimer /\ UNCHANGED notRL)

\* the same event loop, with clear calls
ResetFairSpec ==
    ResetSpec /\ WF_vars(LoopStep) /\ WF_vars(AdvanceToTimer /\ UNCHANGED notRL)

----------------------------------------------------------------------------
(* Response cache: PolymarketService.getOrFetch *)

\* a cache that still serves an entry aged exactly the TTL
IsFreshInclusive(entry, t, ttl) == t - entry.timestamp <= ttl

\* `Date.now() - cached.timestamp < ttl`
IsFresh(entry, t, ttl) == t - entry.timestamp < ttl

\* `cached && Date.now() - cached.timestamp < ttl` for key k at time t
IsHit(c, k, t, ttl) == k \in DOMAIN c /\ IsFresh(c[k], t, ttl)

\* a getOrFetch that returns the data without `this.cache.set`
CacheSetOmitted(c, k, data, t) == c

\* `this.cache.set(cacheKey, {data, timestamp: Date.now()})`
CacheSet(c, k, data, t) ==
    [x \in DOMAIN c \cup {k} |->
        IF x = k THEN [data |-> data, timestamp |-> t] ELSE c[x]]

NoEntry == [data |-> 0, timestamp |-> 0]

\* the calls whose fetcher is running
InFlight == {c \in 1..Len(calls) : calls[c].st = "fetching"}

\* getOrFetch(k, fetcher, defaultCacheTTL) up to its return or its await: a hit
\* returns the stored data, a miss invokes the fetcher. Call c's fetcher yields
\* the value c. `seen` and `inflight` record what the call found, `clears` how
\* many clearCache calls came before it.
GetOrFetch(k) ==
    /\ Len(calls) < MaxCalls
    /\ LET c == Len(calls) + 1
           hit == IsHit(cache, k, now, defaultCacheTTL)
           found == [key |-> k, startedAt |-> now,
                     present |-> k \in DOMAIN cache,
                     seen |-> IF k \in DOMAIN cache THEN cache[k] ELSE NoEntry,
                     inflight |-> {d \in InFlight : calls[d].key = k},
                     clears |-> Len(clears)]
       IN  IF hit
           THEN /\ calls' = Append(calls, found @@
                       [st |-> "returned", hit |-> TRUE, ret |-> cache[k].data])
                /\ UNCHANGED fetches
           ELSE /\ calls' = Append(calls, found @@
                       [st |-> "fetching", hit |-> FALSE, ret |-> 0])
                /\ fetches' = Append(fetches, [call |-> c, key |-> k, at |-> now])
    /\ UNCHANGED <<now, cache>>

\* the fetcher of call c resolves: lines 69-76
FetcherResolves(c) ==
    /\ calls[c].st = "fetching"
    /\ cache' = CacheSet(cache, calls[c].key, c, now)
    /\ calls' = [calls EXCEPT ![c].st = "returned", ![c].ret = c]
    /\ UNCHANGED <<now, fetches>>

\* a getOrFetch that stores what the fetcher threw
FetcherRejectsCached(c) ==
    /\ calls[c].st = "fetching"
    /\ cache' = CacheSet(cache, calls[c].key, c, now)
    /\ calls' = [calls EXCEPT ![c].st = "threw"]
    /\ UNCHANGED <<now, fetches>>

\* the fetcher of call c rejects: `await fetcher()` throws out of getOrFetch
FetcherRejects(c) ==
    /\ calls[c].st = "fetching"
    /\ calls' = [calls EXCEPT ![c].st = "threw"]
    /\ UNCHANGED <<now, cache, fetches>>

\* time passes
CacheTick(d) ==
    /\ now + d <= CacheMaxTime
    /\ now' = now + d
    /\ UNCHANGED cacheVars

\* a PolymarketService cache alone, under getOrFetch calls at arbitrary times
CacheNext ==
    \/ \E k \in Keys : GetOrFetch(k) /\ UNCHANGED notCache
    \/ \E c \in 1..Len(calls) : FetcherResolves(c) /\ UNCHANGED notCache
    \/ \E c \in 1..Len(calls) : FetcherRejects(c) /\ UNCHANGED notCache
    \/ \E d \in CacheDeltas : CacheTick(d) /\ UNCHANGED notCache

CacheSpec == Init /\ [][CacheNext]_vars

\* clearCache(): `this.cache.clear()`, lines 82-85
ClearCache ==
    /\ Len(clears) < MaxClears
    /\ cache' = <<>>
    /\ clears' = Append(clears, now)
    /\ UNCHANGED <<now, calls, fetches>>

\* the cache under getOrFetch and clearCache calls at arbitrary times
ClearNext ==
    \/ CacheNext
    \/ /\ ClearCache
       /\ UNCHANGED <<rlVars, scanVars, lastBatch, lastDropped, lastPass,
                      transformed, computed, reads>>

ClearSpec == Init /\ [][ClearNext]_vars

----------------------------------------------------------------------------
(* Numbers: the IEEE-754 doubles of the prices and of their sum *)

\* A price is kept as its hundredths c; the Number the program holds is the
\* double nearest to c / 100. A double is a sign and a magnitude, the
\* magnitude written in binary with IntegerBits bits before the point and
\* FractionBits bits after it; a double of at least 0.01 and below
\* 2^IntegerBits has its 53 significant bits within them. The two widths
\* bound the magnitudes the model can hold; SignificandBits is the width of
\* the significand of a JavaScript Number.
IntegerBits == 26
FractionBits == 60
SignificandBits == 53

\* the count lowest binary digits of the natural number n, highest first
IntegerPart(n, count) == [k \in 1..count |-> (n \div 2 ^ (count - k)) % 2]

\* what is left of r / 100 after its first count binary digits, in 100ths of
\* the last digit: r * 2^count modulo 100, for r < 100 and count up to 90
\* (the power is taken in three factors to stay within 32-bit integers)
FractionRest(r, count) ==
    LET third == count \div 3
        half == (count - third) \div 2
        power == ((((2 ^ third % 100) * (2 ^ half % 100)) % 100)
                     * (2 ^ (count - third - half) % 100)) % 100
    IN  (r * power) % 100

\* the first count binary digits of r / 100 after the point, for r < 100
FractionPart(r, count) ==
    [k \in 1..count |-> (2 * FractionRest(r, k - 1)) \div 100]

\* the place of the first 1 of a magnitude, or one past its end
FirstOne(bits) ==
    IF \A k \in 1..Len(bits) : bits[k] = 0 THEN Len(bits) + 1
    ELSE CHOOSE k \in 1..Len(bits) :
             bits[k] = 1 /\ \A j \in 1..(k - 1) : bits[j] = 0

\* a magnitude with 1 added at the digit `at`
Increment(bits, at) ==
    LET k == CHOOSE k \in 1..at :
                 bits[k] = 0 /\ \A j \in (k + 1)..at : bits[j] = 1
    IN  [i \in 1..Len(bits) |->
            IF i = k THEN 1 ELSE IF i > k /\ i <= at THEN 0 ELSE bits[i]]

\* round to nearest, ties to even: the magnitude cut to SignificandBits
\* significant digits; inexact says that digits beyond the magnitude follow
RoundToNearest(bits, inexact) ==
    LET Cut(last) ==
            LET kept == [i \in 1..Len(bits) |-> IF i <= last THEN bits[i] ELSE 0]
                beyond == inexact \/ \E j \in (last + 2)..Len(bits) : bits[j] = 1
            IN  IF bits[last + 1] = 1 /\ (beyond \/ bits[last] = 1)
                THEN Increment(kept, last) ELSE kept
        From(first) ==
            IF first + SignificandBits - 1 >= Len(bits) THEN bits
            ELSE Cut(first + SignificandBits - 1)
    IN  From(FirstOne(bits))

\* the sum of two magnitudes: a digit takes a carry when a lower place
\* holds two 1s and every place between holds one
MagnitudeSum(x, y) ==
    LET Carry(i) ==
            IF \E k \in (i + 1)..Len(x) :
                   /\ x[k] + y[k] = 2
                   /\ \A j \in (i + 1)..(k - 1) : x[j] + y[j] = 1
            THEN 1 ELSE 0
    IN  [i \in 1..Len(x) |-> (x[i] + y[i] + Carry(i)) % 2]

\* the difference of two magnitudes, x not below y: a digit lends when a
\* lower place holds 0 over 1 and every place between holds equal digits
MagnitudeDifference(x, y) ==
    LET Borrow(i) ==
            IF \E k \in (i + 1)..Len(x) :
                   /\ x[k] < y[k]
                   /\ \A j \in (i + 1)..(k - 1) : x[j] = y[j]
            THEN 1 ELSE 0
    IN  [i \in 1..Len(x) |-> (x[i] - y[i] - Borrow(i) + 2) % 2]

\* x < y for two magnitudes
MagnitudeLess(x, y) ==
    \E k \in 1..Len(x) : x[k] < y[k] /\ \A j \in 1..(k - 1) : x[j] = y[j]

\* the double nearest to c / 100: what a JSON number or parseFloat gives for
\* a decimal of two places
DoubleOf(c) ==
    LET Nearest(m) ==
            RoundToNearest(IntegerPart(m \div 100, IntegerBits)
                               \o FractionPart(m % 100, FractionBits),
                           FractionRest(m % 100, FractionBits) # 0)
    IN  [negative |-> c < 0, magnitude |-> Nearest(IF c < 0 THEN 0 - c ELSE c)]

\* x + y of two doubles: the exact sum, rounded
DoubleSum(x, y) ==
    LET Rounded(negative, bits) ==
            [negative |-> negative /\ \E k \in 1..Len(bits) : bits[k] = 1,
             magnitude |-> RoundToNearest(bits, FALSE)]
    IN  IF x.negative = y.negative
        THEN Rounded(x.negative, MagnitudeSum(x.magnitude, y.magnitude))
        ELSE IF MagnitudeLess(x.magnitude, y.magnitude)
        THEN Rounded(y.negative, MagnitudeDifference(y.magnitude, x.magnitude))
        ELSE Rounded(x.negative, MagnitudeDifference(x.magnitude, y.magnitude))

\* x < y of two doubles
DoubleLess(x, y) ==
    IF x.negative # y.negative THEN x.negative
    ELSE IF x.negative THEN MagnitudeLess(y.magnitude, x.magnitude)
    ELSE MagnitudeLess(x.magnitude, y.magnitude)

\* how the doubles price1 + price2 and bound compare, as a function of the
\* three numbers in hundredths
SumOrder[price1 \in Int, price2 \in Int, bound \in Int] ==
    LET Order(sum, limit) ==
            IF DoubleLess(sum, limit) THEN "less"
            ELSE IF DoubleLess(limit, sum) THEN "greater" ELSE "equal"
    IN  Order(DoubleSum(DoubleOf(price1), DoubleOf(price2)), DoubleOf(bound))

\* price1 + price2 < bound as the program evaluates it, all three in hundredths
SumLess(price1, price2, bound) == SumOrder[price1, price2, bound] = "less"

\* price1 + price2 > bound as the program evaluates it
SumGreater(price1, price2, bound) == SumOrder[price1, price2, bound] = "greater"

----------------------------------------------------------------------------
(* Numbers: the products, quotients and differences of doubles *)

\* A Number the arithmetic of the program gives: a double ("finite", with its
\* sign and magnitude), an infinity, or NaN.
Zero == [k \in 1..(IntegerBits + FractionBits) |-> 0]
Finite(negative, magnitude) ==
    [kind |-> "finite", negative |-> negative /\ magnitude # Zero,
     magnitude |-> magnitude]
Infinity(negative) == [kind |-> "infinite", negative |-> negative, magnitude |-> Zero]
NotANumber == [kind |-> "NaN", negative |-> FALSE, magnitude |-> Zero]
IsZero(x) == x.kind = "finite" /\ x.magnitude = Zero

\* the Number of the decimal c / 100
NumberOf(c) ==
    LET double == DoubleOf(c) IN Finite(double.negative, double.magnitude)

\* the natural number a sequence of binary digits writes, highest first
RECURSIVE Weigh(_)
Weigh(bits) ==
    IF bits = <<>> THEN 0
    ELSE 2 * Weigh(SubSeq(bits, 1, Len(bits) - 1)) + bits[Len(bits)]

\* the significand of a magnitude whose first 1 is at `first`: its
\* SignificandBits digits from there
Significand(bits, first) ==
    [k \in 1..SignificandBits |->
        IF first + k - 1 <= Len(bits) THEN bits[first + k - 1] ELSE 0] \o <<>>

\* A significand is multiplied in four digits of LimbBits binary digits each,
\* so that the products of two digits and their sums stay within 32 bits.
LimbBits == (SignificandBits + 3) \div 4

\* the four digits of a significand, lowest first
Limbs(sig) ==
    <<Weigh(SubSeq(sig, SignificandBits - LimbBits + 1, SignificandBits)),
      Weigh(SubSeq(sig, SignificandBits - 2 * LimbBits + 1,
                   SignificandBits - LimbBits)),
      Weigh(SubSeq(sig, SignificandBits - 3 * LimbBits + 1,
                   SignificandBits - 2 * LimbBits)),
      Weigh(SubSeq(sig, 1, SignificandBits - 3 * LimbBits))>>

\* the sum of the products of digits that fall on digit k of x * y
ProductColumn(x, y, k) ==
    (IF k <= 4 THEN x[1] * y[k] ELSE 0)
        + (IF k >= 2 /\ k <= 5 THEN x[2] * y[k - 1] ELSE 0)
        + (IF k >= 3 /\ k <= 6 THEN x[3] * y[k - 2] ELSE 0)
        + (IF k >= 4 /\ k <= 7 THEN x[4] * y[k - 3] ELSE 0)

\* what the digits below k carry into digit k
RECURSIVE ProductCarry(_, _, _)
ProductCarry(x, y, k) ==
    IF k = 1 THEN 0
    ELSE (ProductColumn(x, y, k - 1) + ProductCarry(x, y, k - 1)) \div 2 ^ LimbBits

\* the eight digits of x * y, lowest first
ProductLimbs(x, y) ==
    [k \in 1..8 |-> (ProductColumn(x, y, k) + ProductCarry(x, y, k)) % 2 ^ LimbBits]
        \o <<>>

\* binary digit t of a number of eight digits, counted from the highest
LimbDigit(limbs, t) ==
    IF t < 1 \/ t > 8 * LimbBits THEN 0
    ELSE (limbs[8 - ((t - 1) \div LimbBits)]
              \div 2 ^ (LimbBits - 1 - ((t - 1) % LimbBits))) % 2

\* the magnitude of x * y for two magnitudes that are not zero: the exact
\* product of the significands, set where the exponents put it, rounded
ProductMagnitude(x, y) ==
    LET limbs == ProductLimbs(Limbs(Significand(x, FirstOne(x))),
                              Limbs(Significand(y, FirstOne(y))))
        shift == 8 * LimbBits - 2 * (SignificandBits - 1) + IntegerBits
                     - FirstOne(x) - FirstOne(y)
    IN  RoundToNearest(
            [p \in 1..Len(x) |-> LimbDigit(limbs, p + shift)] \o <<>>,
            \E t \in (Len(x) + shift + 1)..(8 * LimbBits) : LimbDigit(limbs, t) = 1)

\* A significand is divided in two halves, the lower of HalfBits digits.
HalfBits == (SignificandBits + 3) \div 2
Halves(sig) ==
    <<Weigh(SubSeq(sig, 1, SignificandBits - HalfBits)),
      Weigh(SubSeq(sig, SignificandBits - HalfBits + 1, SignificandBits))>>

\* r >= d, r - d and 2 * r for numbers of two halves
NotBelow(r, d) == r[1] > d[1] \/ (r[1] = d[1] /\ r[2] >= d[2])
Reduced(r, d) ==
    IF ~NotBelow(r, d) THEN r
    ELSE IF r[2] >= d[2] THEN <<r[1] - d[1], r[2] - d[2]>>
    ELSE <<r[1] - d[1] - 1, r[2] - d[2] + 2 ^ HalfBits>>
Twice(r) == <<2 * r[1] + (2 * r[2]) \div 2 ^ HalfBits, (2 * r[2]) % 2 ^ HalfBits>>

\* long division: the next count binary digits of r / d for r < 2 * d, and
\* what is left to divide
RECURSIVE QuotientDigits(_, _, _)
QuotientDigits(r, d, count) ==
    IF count = 0 THEN [digits |-> <<>>, left |-> r]
    ELSE LET rest == QuotientDigits(Twice(Reduced(r, d)), d, count - 1)
         IN  [digits |-> <<IF NotBelow(r, d) THEN 1 ELSE 0>> \o rest.digits,
              left |-> rest.left]

\* the digits of a quotient are taken in four runs of QuotientRun digits,
\* seven more in all than a significand holds
QuotientRun == (SignificandBits + 7) \div 4

\* the quotient of two significands, x / y with its first digit the units:
\* 4 * QuotientRun digits, and whether the division left a remainder
Quotient(x, y) ==
    LET first == QuotientDigits(x, y, QuotientRun)
        second == QuotientDigits(first.left, y, QuotientRun)
        third == QuotientDigits(second.left, y, QuotientRun)
        fourth == QuotientDigits(third.left, y, QuotientRun)
    IN  [digits |-> first.digits \o second.digits \o third.digits \o fourth.digits,
         exact |-> fourth.left = <<0, 0>>]

\* digit t of the quotient q, or 0 beyond its digits
QuotientDigit(q, t) == IF t < 1 \/ t > Len(q.digits) THEN 0 ELSE q.digits[t]

\* the magnitude of x / y for two magnitudes that are not zero: the quotient
\* of the significands, set where the exponents put it, rounded
QuotientMagnitude(x, y) ==
    LET q == Quotient(Halves(Significand(x, FirstOne(x))),
                      Halves(Significand(y, FirstOne(y))))
        shift == 1 - IntegerBits + FirstOne(y) - FirstOne(x)
    IN  RoundToNearest(
            [p \in 1..Len(x) |-> QuotientDigit(q, p + shift)] \o <<>>,
            ~q.exact \/ \E t \in (Len(x) + shift + 1)..Len(q.digits) :
                            q.digits[t] = 1)

\* x * y of two Numbers
DoubleProduct(x, y) ==
    IF x.kind = "NaN" \/ y.kind = "NaN" THEN NotANumber
    ELSE IF x.kind = "infinite" \/ y.kind = "infinite"
    THEN IF IsZero(x) \/ IsZero(y) THEN NotANumber
         ELSE Infinity(x.negative # y.negative)
    ELSE IF IsZero(x) \/ IsZero(y) THEN Finite(FALSE, Zero)
    ELSE Finite(x.negative # y.negative, ProductMagnitude(x.magnitude, y.magnitude))

\* x / y of two Numbers: 0 / 0 is NaN, any other division by 0 an infinity
DoubleQuotient(x, y) ==
    IF x.kind = "NaN" \/ y.kind = "NaN" THEN NotANumber
    ELSE IF x.kind = "infinite"
    THEN IF y.kind = "infinite" THEN NotANumber
         ELSE Infinity(x.negative # y.negative)
    ELSE IF y.kind = "infinite" THEN Finite(FALSE, Zero)
    ELSE IF IsZero(y)
    THEN IF IsZero(x) THEN NotANumber ELSE Infinity(x.negative # y.negative)
    ELSE IF IsZero(x) THEN Finite(FALSE, Zero)
    ELSE Finite(x.negative # y.negative, QuotientMagnitude(x.magnitude, y.magnitude))

\* x - y of two Numbers
DoubleDifference(x, y) ==
    IF x.kind = "NaN" \/ y.kind = "NaN" THEN NotANumber
    ELSE IF x.kind = "infinite"
    THEN IF y.kind = "infinite" /\ x.negative = y.negative THEN NotANumber ELSE x
    ELSE IF y.kind = "infinite" THEN Infinity(~y.negative)
    ELSE LET difference == DoubleSum(x, [negative |-> ~y.negative,
                                         magnitude |-> y.magnitude])
         IN  Finite(difference.negative, difference.magnitude)

\* x + y of two Numbers that are doubles
NumberSum(x, y) ==
    LET sum == DoubleSum(x, y) IN Finite(sum.negative, sum.magnitude)

----------------------------------------------------------------------------
(* Data transformer: PolymarketTransformer *)

\* A Map is the sequence of its entries [key, value], in insertion order.

\* a set that leaves the entry of an existing key as it is
MapSetKeepsOld(m, k, v) ==
    IF \E i \in 1..Len(m) : m[i].key = k THEN m
    ELSE Append(m, [key |-> k, value |-> v])

\* Map.set(k, v): an existing key keeps its place
MapSet(m, k, v) ==
    IF \E i \in 1..Len(m) : m[i].key = k
    THEN [i \in 1..Len(m) |-> IF m[i].key = k THEN [key |-> k, value |-> v] ELSE m[i]]
    ELSE Append(m, [key |-> k, value |-> v])

\* an optional value: <<>> is undefined, <<v>> is the value v
None == <<>>
Some(v) == <<v>>

\* A string is the sequence of its characters.
Digits == <<"0", "1", "2", "3", "4", "5", "6", "7", "8", "9">>
IsDigit(ch) == \E d \in DOMAIN Digits : Digits[d] = ch
DigitValue(ch) == (CHOOSE d \in DOMAIN Digits : Digits[d] = ch) - 1

UpperCase == <<"A", "B", "C", "D", "E", "F", "G", "H", "I", "J", "K", "L", "M",
               "N", "O", "P", "Q", "R", "S", "T", "U", "V", "W", "X", "Y", "Z">>
LowerCase == <<"a", "b", "c", "d", "e", "f", "g", "h", "i", "j", "k", "l", "m",
               "n", "o", "p", "q", "r", "s", "t", "u", "v", "w", "x", "y", "z">>

\* a toLowerCase that leaves the string as it is
toLowerCaseOmitted(s) == s

\* String.prototype.toLowerCase
toLowerCase(s) ==
    [i \in 1..Len(s) |->
        IF \E k \in DOMAIN UpperCase : UpperCase[k] = s[i]
        THEN LowerCase[CHOOSE k \in DOMAIN UpperCase : UpperCase[k] = s[i]]
        ELSE s[i]]

\* s without its first n characters
Drop(s, n) == SubSeq(s, n + 1, Len(s))

\* s without the blanks at its ends
RECURSIVE TrimStart(_)
TrimStart(s) == IF s # <<>> /\ Head(s) = " " THEN TrimStart(Tail(s)) ELSE s
RECURSIVE TrimEnd(_)
TrimEnd(s) ==
    IF s # <<>> /\ s[Len(s)] = " " THEN TrimEnd(SubSeq(s, 1, Len(s) - 1)) ELSE s
Trim(s) == TrimEnd(TrimStart(s))

\* the length of the run of digits s starts with
RECURSIVE DigitRun(_)
DigitRun(s) == IF s # <<>> /\ IsDigit(Head(s)) THEN 1 + DigitRun(Tail(s)) ELSE 0

\* the number a run of digits writes
RECURSIVE DigitsValue(_)
DigitsValue(s) ==
    IF s = <<>> THEN 0
    ELSE DigitsValue(SubSeq(s, 1, Len(s) - 1)) * 10 + DigitValue(s[Len(s)])

\* the hundredths the digits after a decimal point write (numbers are kept in
\* hundredths, so the strings of the model have at most two of them)
FractionCents(f) ==
    IF Len(f) = 0 THEN 0
    ELSE IF Len(f) = 1 THEN DigitValue(f[1]) * 10
    ELSE DigitValue(f[1]) * 10 + DigitValue(f[2])

NaN == [nan |-> TRUE, value |-> 0]

\* a parse that stops at the decimal point (parseInt)
parseFloatToThePoint(s) ==
    LET UpToPoint(t) ==
            IF DigitRun(t) = 0 THEN NaN
            ELSE [nan |-> FALSE,
                  value |-> DigitsValue(SubSeq(t, 1, DigitRun(t))) * 100]
    IN  UpToPoint(TrimStart(s))

\* parseFloat: the number, in hundredths, that the longest numeric prefix of
\* the string writes after leading blanks, or NaN when there is none
parseFloat(s) ==
    LET Magnitude(u, k1, k2) ==
            DigitsValue(SubSeq(u, 1, k1)) * 100
                + FractionCents(SubSeq(u, k1 + 2, k1 + 1 + k2))
        Number(negative, u, k1, k2) ==
            IF k1 + k2 = 0 THEN NaN
            ELSE [nan |-> FALSE,
                  value |-> IF negative THEN 0 - Magnitude(u, k1, k2)
                            ELSE Magnitude(u, k1, k2)]
        Fraction(negative, u, k1) ==
            Number(negative, u, k1,
                   IF Len(u) > k1 /\ u[k1 + 1] = "."
                   THEN DigitRun(Drop(u, k1 + 1)) ELSE 0)
        Unsigned(negative, u) == Fraction(negative, u, DigitRun(u))
        Signed(t) ==
            Unsigned(t # <<>> /\ Head(t) = "-",
                     IF t # <<>> /\ Head(t) \in {"-", "+"} THEN Tail(t) ELSE t)
    IN  Signed(TrimStart(s))

\* the decimal digits of a natural number
RECURSIVE NaturalToString(_)
NaturalToString(n) ==
    IF n < 10 THEN <<Digits[n + 1]>>
    ELSE NaturalToString(n \div 10) \o <<Digits[(n % 10) + 1]>>

\* String(x) of a number x of c hundredths: no trailing zero, no point for an integer
NumberToString(c) ==
    LET m == IF c < 0 THEN 0 - c ELSE c
        frac == m % 100
    IN  (IF c < 0 THEN <<"-">> ELSE <<>>)
        \o NaturalToString(m \div 100)
        \o (IF frac = 0 THEN <<>>
            ELSE IF frac % 10 = 0 THEN <<".", Digits[(frac \div 10) + 1]>>
            ELSE <<".", Digits[(frac \div 10) + 1], Digits[(frac % 10) + 1]>>)

\* the pieces of s between its commas (the strings of the model hold no comma
\* inside a quoted string)
RECURSIVE SplitAtCommas(_)
SplitAtCommas(s) ==
    IF \E k \in 1..Len(s) : s[k] = ","
    THEN LET k == CHOOSE k \in 1..Len(s) :
                      s[k] = "," /\ \A j \in 1..(k - 1) : s[j] # ","
         IN  <<SubSeq(s, 1, k - 1)>> \o SplitAtCommas(Drop(s, k))
    ELSE <<s>>

\* the JSON grammar of a number: -? (0 | [1-9][0-9]*) (. [0-9]+)?
IsJSONNumber(p) ==
    LET Grammar(u, k1) ==
            /\ k1 >= 1
            /\ k1 = 1 \/ Head(u) # "0"
            /\ \/ Len(u) = k1
               \/ /\ u[k1 + 1] = "."
                  /\ Len(u) >= k1 + 2
                  /\ DigitRun(Drop(u, k1 + 1)) = Len(u) - k1 - 1
        Unsigned(u) == Grammar(u, DigitRun(u))
    IN  Unsigned(IF p # <<>> /\ Head(p) = "-" THEN Tail(p) ELSE p)

\* the JSON grammar of a string without escapes
IsJSONString(p) ==
    /\ Len(p) >= 2
    /\ p[1] = "\""
    /\ p[Len(p)] = "\""
    /\ \A k \in 2..(Len(p) - 1) : p[k] \notin {"\"", "\\"}

JSONLiterals == {<<"n", "u", "l", "l">>, <<"t", "r", "u", "e">>,
                 <<"f", "a", "l", "s", "e">>}

IsJSONScalar(p) == IsJSONNumber(p) \/ IsJSONString(p) \/ p \in JSONLiterals

\* the value a scalar of JSON text denotes
JSONScalar(p) ==
    IF IsJSONString(p) THEN [type |-> "string", text |-> SubSeq(p, 2, Len(p) - 1)]
    ELSE IF IsJSONNumber(p) THEN [type |-> "number", text |-> p]
    ELSE [type |-> "literal", text |-> p]

\* JSON.parse of the texts of the model: an array of scalars, a scalar, an
\* empty object, or a SyntaxError
JSONParse(s) ==
    LET SyntaxError == [threw |-> TRUE, isArray |-> FALSE, items |-> <<>>]
        Items(pieces) ==
            IF \A i \in DOMAIN pieces : IsJSONScalar(pieces[i])
            THEN [threw |-> FALSE, isArray |-> TRUE,
                  items |-> [i \in DOMAIN pieces |-> JSONScalar(pieces[i])]]
            ELSE SyntaxError
        TrimEach(parts) == [i \in DOMAIN parts |-> Trim(parts[i])]
        Array(inner) ==
            IF inner = <<>>
            THEN [threw |-> FALSE, isArray |-> TRUE, items |-> <<>>]
            ELSE Items(TrimEach(SplitAtCommas(inner)))
        Text(t) ==
            IF Len(t) >= 2 /\ t[1] = "[" /\ t[Len(t)] = "]"
            THEN Array(Trim(SubSeq(t, 2, Len(t) - 1)))
            ELSE IF IsJSONScalar(t) \/ t = <<"{", "}">>
                 THEN [threw |-> FALSE, isArray |-> FALSE, items |-> <<>>]
                 ELSE SyntaxError
    IN  Text(Trim(s))

\* String(item) of a parsed scalar
String(item) ==
    IF item.type = "number" THEN NumberToString(parseFloat(item.text).value)
    ELSE item.text

\* PolymarketTransformer.parseStringifiedArray
parseStringifiedArray(jsonString) ==
    LET Strings(parsed) ==
            IF parsed.threw THEN <<>>
            ELSE IF parsed.isArray
                 THEN [i \in DOMAIN parsed.items |-> String(parsed.items[i])]
                 ELSE <<>>
    IN  IF jsonString = None \/ jsonString[1] = <<>> THEN <<>>
        ELSE Strings(JSONParse(jsonString[1]))

\* a flag of a raw record is "true", "false" or "undefined"; only "true" is truthy
Truthy(flag) == flag = "true"

\* Array.prototype.find over the tokens: the first whose outcome, in lower
\* case, is the name; <<>> when there is none
FindToken(tokens, name) ==
    IF \E k \in 1..Len(tokens) : toLowerCase(tokens[k].outcome) = name
    THEN Some(tokens[CHOOSE k \in 1..Len(tokens) :
                  /\ toLowerCase(tokens[k].outcome) = name
                  /\ \A j \in 1..(k - 1) : toLowerCase(tokens[j].outcome) # name])
    ELSE None

\* lines 41-58 of extractYesNoPrice: the prices the tokens give, or <<>>
PricesFromTokens(market) ==
    LET Found(yesToken, noToken) ==
            IF /\ yesToken # None
               /\ noToken # None
               /\ yesToken[1].price # None
               /\ noToken[1].price # None
            THEN Some([yesPrice |-> yesToken[1].price[1],
                       noPrice |-> noToken[1].price[1],
                       yesTokenId |-> Some(yesToken[1].token_id),
                       noTokenId |-> Some(noToken[1].token_id)])
            ELSE None
    IN  IF market.tokens # None /\ Len(market.tokens[1]) >= 2
        THEN Found(FindToken(market.tokens[1], <<"y", "e", "s">>),
                   FindToken(market.tokens[1], <<"n", "o">>))
        ELSE None

\* lines 61-89 of extractYesNoPrice: the prices outcomePrices gives, or <<>>
PricesFromOutcomePrices(market) ==
    LET TokenIds(tokenIds) ==
            IF /\ market.clobTokenIds # None
               /\ market.clobTokenIds[1] # <<>>
               /\ Len(tokenIds) >= 2
            THEN [yes |-> Some(tokenIds[1]), no |-> Some(tokenIds[2])]
            ELSE [yes |-> None, no |-> None]
        Parsed(yesPrice, noPrice, ids) ==
            IF ~yesPrice.nan /\ ~noPrice.nan
            THEN Some([yesPrice |-> yesPrice.value,
                       noPrice |-> noPrice.value,
                       yesTokenId |-> ids.yes,
                       noTokenId |-> ids.no])
            ELSE None
        Prices(prices) ==
            IF Len(prices) >= 2
            THEN Parsed(parseFloat(prices[1]), parseFloat(prices[2]),
                        TokenIds(parseStringifiedArray(market.clobTokenIds)))
            ELSE None
    IN  IF market.outcomePrices # None /\ market.outcomePrices[1] # <<>>
        THEN Prices(parseStringifiedArray(market.outcomePrices))
        ELSE None

\* PolymarketTransformer.extractYesNoPrice: <<>> is null
extractYesNoPrice(market) ==
    LET OrFallBack(fromTokens) ==
            IF fromTokens # None THEN fromTokens
            ELSE PricesFromOutcomePrices(market)
    IN  OrFallBack(PricesFromTokens(market))

\* PolymarketTransformer.determineMarketStatus
determineMarketStatus(market) ==
    IF Truthy(market.closed) THEN "closed"
    ELSE IF Truthy(market.archived) THEN "closed"
    ELSE IF Truthy(market.active) /\ Truthy(market.accepting_orders) THEN "active"
    ELSE IF market.active = "false" THEN "suspended"
    ELSE "active"

\* a transformMarket that builds a Market also when no price is found
transformMarketUnpriced(polyMarket) ==
    Some([id |-> polyMarket.id, platform |-> "polymarket",
          status |-> determineMarketStatus(polyMarket),
          liquidity |-> polyMarket.liquidity])

\* PolymarketTransformer.transformMarket: <<>> is null
transformMarket(polyMarket) ==
    IF extractYesNoPrice(polyMarket) = None THEN None
    ELSE Some([id |-> polyMarket.id, platform |-> "polymarket",
               status |-> determineMarketStatus(polyMarket),
               liquidity |-> polyMarket.liquidity])

\* PolymarketTransformer.transformToBets
transformToBets(polyMarket) ==
    LET Bets(prices) ==
            IF prices = None THEN <<>>
            ELSE << [marketId |-> polyMarket.id, platform |-> "polymarket",
                     outcome |-> "YES", price |-> prices[1].yesPrice,
                     displayPrice |-> prices[1].yesPrice * 100],
                    [marketId |-> polyMarket.id, platform |-> "polymarket",
                     outcome |-> "NO", price |-> prices[1].noPrice,
                     displayPrice |-> prices[1].noPrice * 100] >>
    IN  Bets(extractYesNoPrice(polyMarket))

\* an isMarketValid whose band leaves out its two bounds
isMarketValidOpenBand(market) ==
    LET OpenBand(yesPrice, noPrice) ==
            /\ SumGreater(yesPrice, noPrice, MinPriceSum)
            /\ SumLess(yesPrice, noPrice, MaxPriceSum)
        WithPrices(prices) ==
            /\ prices # None
            /\ OpenBand(prices[1].yesPrice, prices[1].noPrice)
    IN  /\ Truthy(market.active)
        /\ ~Truthy(market.closed)
        /\ ~Truthy(market.archived)
        /\ Truthy(market.accepting_orders)
        /\ WithPrices(extractYesNoPrice(market))
        /\ ~(market.liquidity # None /\ market.liquidity[1] < MinLiquidity)

\* PolymarketTransformer.isMarketValid; the price sum is the double the
\* program adds up, compared with the doubles 0.8 and 1.2
isMarketValid(market) ==
    LET Summed(yesPrice, noPrice) ==
            IF \/ SumLess(yesPrice, noPrice, MinPriceSum)
               \/ SumGreater(yesPrice, noPrice, MaxPriceSum)
            THEN FALSE
            ELSE IF market.liquidity # None /\ market.liquidity[1] < MinLiquidity
                 THEN FALSE
                 ELSE TRUE
        WithPrices(prices) ==
            IF prices = None THEN FALSE
            ELSE Summed(prices[1].yesPrice, prices[1].noPrice)
    IN  IF ~Truthy(market.active) \/ Truthy(market.closed) \/ Truthy(market.archived)
        THEN FALSE
        ELSE IF ~Truthy(market.accepting_orders) THEN FALSE
        ELSE WithPrices(extractYesNoPrice(market))

\* a filter that keeps every market
filterNothing(polyMarkets) == polyMarkets

\* PolymarketTransformer.filterValidMarkets
filterValidMarkets(polyMarkets) == SelectSeq(polyMarkets, isMarketValid)

\* a batch transformation that a record without prices ends
RECURSIVE transformMarketsUntilBad(_)
transformMarketsUntilBad(polyMarkets) ==
    IF polyMarkets = <<>> THEN <<>>
    ELSE IF transformMarket(Head(polyMarkets)) = None THEN <<>>
    ELSE transformMarket(Head(polyMarkets))
            \o transformMarketsUntilBad(Tail(polyMarkets))

\* PolymarketTransformer.transformMarkets
RECURSIVE transformMarkets(_)
transformMarkets(polyMarkets) ==
    IF polyMarkets = <<>> THEN <<>>
    ELSE transformMarket(Head(polyMarkets)) \o transformMarkets(Tail(polyMarkets))

\* PolymarketTransformer.transformMarketsToBets: the Map it builds from betsMap
RECURSIVE BetsMapFrom(_, _)
BetsMapFrom(betsMap, polyMarkets) ==
    LET Set(id, betArray) ==
            IF Len(betArray) > 0 THEN MapSet(betsMap, id, betArray) ELSE betsMap
    IN  IF polyMarkets = <<>> THEN betsMap
        ELSE BetsMapFrom(
                Set(Head(polyMarkets).id, transformToBets(Head(polyMarkets))),
                Tail(polyMarkets))

transformMarketsToBets(polyMarkets) == BetsMapFrom(<<>>, polyMarkets)

\* The raw records the transformer is applied to.

Flags == {"true", "false", "undefined"}

Token(name, id, price) == [token_id |-> id, outcome |-> name, price |-> price]

\* tokens named Yes and No, in several spellings and orders
YesNoTokens(pp) ==
    << Token(<<"Y", "e", "s">>, <<"y">>, Some(pp[1])),
       Token(<<"N", "o">>, <<"n">>, Some(pp[2])) >>

\* Yes and No prices at, inside and outside the bounds of the band
BandPricePairs == {<<55, 45>>, <<40, 40>>, <<39, 40>>, <<60, 60>>, <<60, 61>>,
                   <<70, 10>>, <<55, 65>>}

TokenLists ==
    {None, Some(<<>>)}
    \cup {Some(YesNoTokens(pp)) : pp \in BandPricePairs}
    \cup { Some(<< Token(<<"Y", "E", "S">>, <<"y">>, Some(40)),
                   Token(<<"n", "o">>, <<"n">>, Some(60)) >>),
           Some(<< Token(<<"N", "O">>, <<"n">>, Some(45)),
                   Token(<<"y", "e", "s">>, <<"y">>, Some(55)) >>),
           Some(<< Token(<<"M", "a", "y", "b", "e">>, <<"m">>, Some(10)),
                   Token(<<"Y", "e", "s">>, <<"y">>, Some(50)),
                   Token(<<"N", "o">>, <<"n">>, Some(40)) >>),
           Some(<< Token(<<"Y", "e", "s">>, <<"y">>, None),
                   Token(<<"N", "o">>, <<"n">>, Some(45)) >>),
           Some(<< Token(<<"Y", "e", "s">>, <<"y">>, Some(55)),
                   Token(<<"N", "o">>, <<"n">>, None) >>),
           Some(<< Token(<<"Y", "e", "s">>, <<"y">>, Some(55)) >>),
           Some(<< Token(<<"U", "p">>, <<"u">>, Some(55)),
                   Token(<<"D", "o", "w", "n">>, <<"d">>, Some(45)) >>),
           Some(YesNoTokens(<<110, 0 - 10>>)) }

\* the text of a JSON array: its elements, each as it is written, between
\* brackets and separated by a comma and a blank
RECURSIVE JoinElements(_)
JoinElements(written) ==
    IF written = <<>> THEN <<>>
    ELSE IF Len(written) = 1 THEN written[1]
    ELSE written[1] \o <<",", " ">> \o JoinElements(Tail(written))

ArrayText(written) == <<"[">> \o JoinElements(written) \o <<"]">>

\* a string as JSON writes it
Quoted(s) == <<"\"">> \o s \o <<"\"">>

\* the elements outcomePrices is written with, each with the price it stands
\* for in cents: numbers as strings and as numbers, a number followed by other
\* characters, and elements that are no number
Elements ==
    { [written |-> Quoted(<<"0", ".", "5", "5">>), price |-> Some(55)],
      [written |-> Quoted(<<"0", ".", "4", "5">>), price |-> Some(45)],
      [written |-> Quoted(<<"0", ".", "4">>), price |-> Some(40)],
      [written |-> <<"0", ".", "6", "0">>, price |-> Some(60)],
      [written |-> <<"1">>, price |-> Some(100)],
      [written |-> Quoted(<<"0", ".", "4", "x">>), price |-> Some(40)],
      [written |-> Quoted(<<"a", "b", "c">>), price |-> None],
      [written |-> Quoted(<<>>), price |-> None],
      [written |-> <<"n", "u", "l", "l">>, price |-> None] }

\* the arrays outcomePrices is written as
ElementLists == UNION {[1..n -> Elements] : n \in 0..MaxElements}

WrittenOf(es) == [i \in DOMAIN es |-> es[i].written]

\* outcomePrices: absent, empty, an array, and texts that are no array
OutcomePricesTexts ==
    {None, Some(<<>>)}
    \cup {Some(ArrayText(WrittenOf(es))) : es \in ElementLists}
    \cup { Some(<<"0", ".", "5", "5">>),
           Some(<<"{", "}">>),
           Some(<<"[", "\"", "0", ".", "5", "5", "\"", ",">>),
           Some(<<"0", ".", "5", "5", ",", "0", ".", "4", "5">>) }

\* clobTokenIds written with the ids 11 and 22
TwoTokenIds == ArrayText(<<Quoted(<<"1", "1">>), Quoted(<<"2", "2">>)>>)

\* clobTokenIds: absent, two ids, one id, and a text that is no JSON
ClobTokenIdsTexts ==
    { None,
      Some(TwoTokenIds),
      Some(ArrayText(<<Quoted(<<"1", "1">>)>>)),
      Some(<<"1", "1", ";", "2", "2">>) }

\* liquidity: absent, zero, just below the floor, the floor
Liquidities == {None, Some(0), Some(MinLiquidity - 1), Some(MinLiquidity)}

\* an open market with the given price encodings
Priced(t, o, c) ==
    [id |-> 1, active |-> "true", closed |-> "false", archived |-> "false",
     accepting_orders |-> "true", tokens |-> t, outcomePrices |-> o,
     clobTokenIds |-> c, liquidity |-> None]

\* records that vary the price encodings: every token list with an absent, a
\* priced and an unpriced outcomePrices, and every outcomePrices and
\* clobTokenIds with no tokens and with tokens that give no price
PricedRecords ==
    {Priced(t, o, None) :
        t \in TokenLists,
        o \in {None,
               Some(ArrayText(<<Quoted(<<"0", ".", "4">>), <<"0", ".", "6", "0">>>>)),
               Some(ArrayText(<<Quoted(<<"a", "b", "c">>)>>))}}
    \cup
    {Priced(t, o, c) :
        t \in {None,
               Some(<< Token(<<"Y", "e", "s">>, <<"y">>, None),
                       Token(<<"N", "o">>, <<"n">>, Some(45)) >>)},
        o \in OutcomePricesTexts,
        c \in ClobTokenIdsTexts}

\* records that vary the four flags and the liquidity, priced by their tokens
\* at and around the bounds of the band, or not priced
FlaggedRecords ==
    {[id |-> 1, active |-> f[1], closed |-> f[2], archived |-> f[3],
      accepting_orders |-> f[4], tokens |-> t, outcomePrices |-> None,
      clobTokenIds |-> None, liquidity |-> l] :
        f \in Flags \X Flags \X Flags \X Flags,
        t \in {None} \cup {Some(YesNoTokens(pp)) : pp \in BandPricePairs},
        l \in Liquidities}

RawRecords == PricedRecords \cup FlaggedRecords

\* the application of the transformer to a raw record, with all it returns;
\* a run observes one record
Transform(polyMarket) ==
    /\ transformed = <<>>
    /\ transformed' =
           << [input |-> polyMarket,
               prices |-> extractYesNoPrice(polyMarket),
               status |-> determineMarketStatus(polyMarket),
               valid |-> isMarketValid(polyMarket),
               market |-> transformMarket(polyMarket),
               bets |-> transformToBets(polyMarket)] >>
    /\ UNCHANGED <<lastBatch, lastDropped, lastPass, computed, readVars>>

\* the transformer alone, applied to any raw record
TransformNext ==
    \E polyMarket \in RawRecords :
        Transform(polyMarket) /\ UNCHANGED <<now, rlVars, cacheVars, scanVars>>

TransformSpec == Init /\ [][TransformNext]_vars

----------------------------------------------------------------------------
(* Scan orchestrator: MarketScannerService *)

Sources == {"polymarket", "kalshi", "manifold", "predictit"}

\* an open upstream market that quotes its two outcomes as tokens
TokenMarket(id, pp) ==
    [id |-> id, active |-> "true", closed |-> "false", archived |-> "false",
     accepting_orders |-> "true",
     tokens |-> Some(<< [token_id |-> <<"y">>, outcome |-> <<"Y", "e", "s">>,
                         price |-> Some(pp[1])],
                        [token_id |-> <<"n">>, outcome |-> <<"N", "o">>,
                         price |-> Some(pp[2])] >>),
     outcomePrices |-> None, clobTokenIds |-> None, liquidity |-> None]

\* the markets of the upstream events: quoted within the band of
\* isMarketValid, and quoted outside of it
RawMarkets ==
    {TokenMarket(m, pp) : m \in MarketIds, pp \in PricePairs \cup OffBandPricePairs}

\* the upstream answers of one fetch, and what getMarketsWithBets makes of
\* them: validMarkets, which it caches and transforms
AnswersOfLen(n) == [1..n -> RawMarkets]
Answers == UNION {AnswersOfLen(n) : n \in 0..MaxBatch}
\* Array.prototype.slice(0, limit)
SliceTo(s, limit) == SubSeq(s, 1, IF limit < Len(s) THEN limit ELSE Len(s))

----------------------------------------------------------------------------
(* PolymarketService: its RateLimiter, its cache and its public methods *)

\* the drain loop that runs the request of operation o
LoopOf(o) == {i \in 1..Len(loops) : loops[i].pc = "running" /\ loops[i].op = o}

\* a timer of drain loop i elapses: the sleep of waitIfNeeded or the minimum delay
TimerFires(i) ==
    IF loops[i].pc = "waitSleep" THEN WakeWait(i) ELSE WakeDelay(i)

\* PolymarketService.ts:29-30
MIN_LIQUIDITY == 1000
MIN_VOLUME_24HR == 500

\* an open upstream market with the figures the minimum criteria read
ActiveMarket(id, figures) ==
    [id |-> id, active |-> "true", closed |-> "false", archived |-> "false",
     accepting_orders |-> "true",
     tokens |-> Some(<< [token_id |-> <<"y">>, outcome |-> <<"Y", "e", "s">>,
                         price |-> Some(55)],
                        [token_id |-> <<"n">>, outcome |-> <<"N", "o">>,
                         price |-> Some(45)] >>),
     outcomePrices |-> None, clobTokenIds |-> None,
     liquidity |-> figures[1], volume_24hr |-> figures[2]]

\* the liquidity and the 24-hour volume of a record: none reported, a
\* liquidity of zero, one just below its minimum, a volume of zero, one just
\* below its minimum, and both at their minimum
Figures ==
    {<<None, None>>, <<Some(0), None>>, <<Some(MIN_LIQUIDITY - 1), None>>,
     <<None, Some(0)>>, <<None, Some(MIN_VOLUME_24HR - 1)>>,
     <<Some(MIN_LIQUIDITY), Some(MIN_VOLUME_24HR)>>}

\* the figures of the records of an answer of two: none reported, a volume
\* of zero, a volume just below its minimum
FiguresOfTwo ==
    {<<None, None>>, <<None, Some(0)>>, <<None, Some(MIN_VOLUME_24HR - 1)>>}

\* the upstream answers to getMarkets: no record, one record, two records
ActiveAnswers ==
    {<<>>} \cup {<<ActiveMarket(1, f)>> : f \in Figures}
           \cup {<<ActiveMarket(1, f), ActiveMarket(2, g)>> :
                     f \in FiguresOfTwo, g \in FiguresOfTwo}

\* the limits getActiveMarkets is called with
Limits == 1..MaxBatch

\* a call of a public method: its name, its limit or market id, its tags
Call(method, arg, tags) == [method |-> method, arg |-> arg, tags |-> tags]

ActiveCall(limit) == Call("getActiveMarkets", limit, <<>>)

\* tags.join('_')
RECURSIVE JoinTags(_)
JoinTags(tags) ==
    IF tags = <<>> THEN <<>>
    ELSE IF Len(tags) = 1 THEN Head(tags)
    ELSE Head(tags) \o <<"_">> \o JoinTags(Tail(tags))

\* the cacheKey each method builds (lines 94, 156, 218, 282, 341)
CacheKey(call) ==
    IF call.method = "getTrendingMarkets" THEN <<"trending_markets", call.arg>>
    ELSE IF call.method = "getActiveMarkets" THEN <<"active_markets", call.arg>>
    ELSE IF call.method = "getMarketsByCategory"
    THEN <<"markets_category", JoinTags(call.tags), call.arg>>
    ELSE IF call.method = "getMarketsWithBets" THEN <<"markets_with_bets", call.arg>>
    ELSE <<"market", call.arg>>

\* the requests the fetcher of a call enqueues, one after the other
RequestsOf(call) ==
    IF call.method = "getMarketsByCategory" THEN Len(call.tags) ELSE 1

\* an optional field that a record may lack altogether
Field(record, name) == IF name \in DOMAIN record THEN record[name] ELSE None

\* `for (const event of events) if (event.markets && event.markets.length > 0)
\* allMarkets.push(...event.markets)`
RECURSIVE ExtractMarkets(_)
ExtractMarkets(events) ==
    IF events = <<>> THEN <<>>
    ELSE (IF Head(events).markets # None THEN Head(events).markets[1] ELSE <<>>)
             \o ExtractMarkets(Tail(events))

\* the markets an upstream answer adds to those of a call: the markets of
\* the events, the list of getMarkets, the record of getMarketById
Received(call, answer) ==
    IF call.method = "getActiveMarkets" THEN answer
    ELSE IF call.method = "getMarketWithBets" THEN <<answer>>
    ELSE ExtractMarkets(answer)

\* `a.volume_24hr || a.volume || 0`: a number is truthy unless 0
VolumeOf(market) ==
    LET Or(first, second) ==
            IF first # None /\ first[1] # 0 THEN first[1]
            ELSE IF second # None /\ second[1] # 0 THEN second[1]
            ELSE 0
    IN  Or(Field(market, "volume_24hr"), Field(market, "volume"))

\* validMarkets.sort((a, b) => volumeB - volumeA): by falling volume, markets
\* of equal volume in the order they had
RECURSIVE SortByVolume(_)
SortByVolume(polyMarkets) ==
    LET Placed(market, sorted) ==
            LET larger == {k \in 1..Len(sorted) :
                              \A j \in 1..k : VolumeOf(sorted[j]) > VolumeOf(market)}
            IN  SubSeq(sorted, 1, Cardinality(larger)) \o <<market>>
                    \o SubSeq(sorted, Cardinality(larger) + 1, Len(sorted))
    IN  IF polyMarkets = <<>> THEN <<>>
        ELSE Placed(Head(polyMarkets), SortByVolume(Tail(polyMarkets)))

\* Array.from(new Map(allMarkets.map((m) => [m.id, m])).values()): an id keeps
\* the place of its first record and the record that came last
RECURSIVE UniqueInto(_, _)
UniqueInto(map, allMarkets) ==
    IF allMarkets = <<>> THEN [k \in 1..Len(map) |-> map[k].value]
    ELSE UniqueInto(MapSet(map, Head(allMarkets).id, Head(allMarkets)),
                    Tail(allMarkets))

\* `if (figure && figure < minimum) return false`: a number is truthy unless 0
BelowMinimum(figure, minimum) ==
    figure # None /\ figure[1] # 0 /\ figure[1] < minimum

\* the filter of lines 175-187
MeetsMinimumCriteria(market) ==
    IF BelowMinimum(Field(market, "liquidity"), MIN_LIQUIDITY) THEN FALSE
    ELSE IF BelowMinimum(Field(market, "volume_24hr"), MIN_VOLUME_24HR) THEN FALSE
    ELSE TRUE

\* the fetcher of getActiveMarkets, lines 160-190, for the upstream answer rawMarkets
ActiveFetcher(limit, rawMarkets) ==
    SliceTo(SelectSeq(filterValidMarkets(rawMarkets), MeetsMinimumCriteria), limit)

\* what the fetcher of a call returns, and getOrFetch caches, for the markets
\* its requests received
Fetcher(call, received) ==
    IF call.method = "getTrendingMarkets"
    THEN SliceTo(SortByVolume(filterValidMarkets(received)), call.arg)
    ELSE IF call.method = "getActiveMarkets" THEN ActiveFetcher(call.arg, received)
    ELSE IF call.method = "getMarketsByCategory"
    THEN SliceTo(filterValidMarkets(UniqueInto(<<>>, received)), call.arg)
    ELSE IF call.method = "getMarketsWithBets"
    THEN SliceTo(filterValidMarkets(received), call.arg)
    ELSE received[1]

\* getMarketWithBets lines 353-366: null (<<>>) for a market that is not
\* valid or gives no market or no bets
MarketWithBets(polyMarket) ==
    IF ~isMarketValid(polyMarket) THEN None
    ELSE IF transformMarket(polyMarket) = None \/ transformToBets(polyMarket) = <<>>
    THEN None
    ELSE Some([market |-> transformMarket(polyMarket)[1],
               bets |-> transformToBets(polyMarket)])

\* what a method returns for the data getOrFetch gave it
ReturnOf(call, data) ==
    IF call.method = "getMarketsWithBets"
    THEN [markets |-> transformMarkets(data), bets |-> transformMarketsToBets(data)]
    ELSE IF call.method = "getMarketWithBets" THEN MarketWithBets(data)
    ELSE transformMarkets(data)

\* the call scanPolymarket makes (line 411): getMarketsWithBets(100)
ScanCall == Call("getMarketsWithBets", ScanLimit, <<>>)

\* calls other than those a specification draws from richer sets: one of
\* each public method, getMarketsByCategory with two tags and with none
ServiceInputs ==
    {Call("getTrendingMarkets", 1, <<>>), ActiveCall(1),
     Call("getMarketsByCategory", 1, << <<"a">>, <<"b">> >>),
     Call("getMarketsByCategory", 1, <<>>),
     Call("getMarketsWithBets", 1, <<>>),
     Call("getMarketWithBets", 1, <<>>)}

\* the upstream answers to the requests of those calls
ServiceAnswers(call) ==
    IF call.method = "getActiveMarkets" THEN {<<ActiveMarket(1, <<None, None>>)>>}
    ELSE IF call.method = "getMarketWithBets" THEN {TokenMarket(1, <<55, 45>>)}
    ELSE {<<[markets |-> Some(<<TokenMarket(1, <<55, 45>>)>>)]>>}

\* the lists of markets a scan is answered with: up to MaxBatch records with
\* ascending ids, each with prices within the band of isMarketValid or not
ScanLists ==
    {allMarkets \in Answers :
        \A n \in 1..Len(allMarkets) - 1 : allMarkets[n].id < allMarkets[n + 1].id}

\* the upstream answers to the request of a scan: one event that holds such a
\* list, with the number of its records isMarketValid rejects
ScanAnswers ==
    {[events |-> <<[markets |-> Some(allMarkets)]>>,
      dropped |-> Len(allMarkets) - Len(filterValidMarkets(allMarkets))] :
        allMarkets \in ScanLists}

\* the lists of markets the requests of a call can have received in all
ReceivedBy(call) ==
    LET OfOne == {Received(call, answer) :
                     answer \in IF call.method = "getActiveMarkets"
                                THEN ActiveAnswers ELSE ServiceAnswers(call)}
    IN  IF call = ScanCall THEN Answers
        ELSE IF call.method = "getMarketsByCategory"
        THEN IF call.tags = <<>> THEN {<<>>}
             ELSE {first \o second : first \in OfOne, second \in OfOne}
        ELSE OfOne

\* the calls of the model
ServiceCalls ==
    ServiceInputs \cup {ActiveCall(limit) : limit \in Limits} \cup {ScanCall}

\* what the fetcher of every call of the model returns for every list of
\* markets its requests can have received (a table: `@@ <<>>` enumerates the
\* function once, where it is defined)
FetcherResults ==
    [call \in ServiceCalls |->
        [received \in ReceivedBy(call) |-> Fetcher(call, received)] @@ <<>>] @@ <<>>

\* what every call of the model returns for the data getOrFetch can give it
Returns ==
    [call \in ServiceCalls |->
        [data \in {FetcherResults[call][received] :
                      received \in DOMAIN FetcherResults[call]} |->
            ReturnOf(call, data)] @@ <<>>] @@ <<>>

\* the requests the calls in progress have yet to enqueue
RECURSIVE Outstanding(_)
Outstanding(cs) ==
    IF cs = <<>> THEN 0
    ELSE (IF Head(cs).st \in {"fetching", "next"} THEN Head(cs).left ELSE 0)
             + Outstanding(Tail(cs))

\* The limiter of the service has a quota of 100 requests a minute (line 40),
\* which the runs of the model do not reach: a call that needs n requests is
\* made while the requests enqueued and to come stay within the quota of the
\* model, so that waitIfNeeded never sleeps, as in the service.
WithinQuota(n) == enqCount + Outstanding(calls) + n <= maxRequestsPerMinute

\* the record of a call: the operation it awaits (0: none), where it stands,
\* the markets received so far, the data getOrFetch gave and the value returned
Started(call, op, st, left, hit, from) ==
    [method |-> call.method, arg |-> call.arg, tags |-> call.tags,
     op |-> op, st |-> st, left |-> left, acc |-> <<>>,
     hit |-> hit, from |-> from, value |-> <<>>]

\* the call a record was made for
InputOf(c) == Call(c.method, c.arg, c.tags)

\* the calls made by scan cycles, and those made by other callers
OfCycle(k) == \E c \in 1..Len(cycles) : cycles[c].call = k
OutsideCalls == Len(calls) - Len(cycles)

\* A public method up to its first await, which hands the caller a pending
\* promise. getOrFetch returns the data of a fresh entry ("hit": the method
\* goes on in a later microtask); else the fetcher runs and enqueues its first
\* request on the RateLimiter ("fetching"), or has none to make ("next").
\* `calls` keeps each call; at most MaxServiceCalls are made.
ServiceCall(call) ==
    /\ Len(calls) < MaxServiceCalls
    /\ LET key == CacheKey(call) IN
       IF IsHit(cache, key, now, defaultCacheTTL)
       THEN /\ calls' = Append(calls, Started(call, 0, "hit", 0, TRUE, cache[key].data))
            /\ UNCHANGED <<now, rlVars>>
       ELSE IF RequestsOf(call) = 0
       THEN /\ calls' = Append(calls, Started(call, 0, "next", 0, FALSE, <<>>))
            /\ UNCHANGED <<now, rlVars>>
       ELSE /\ WithinQuota(RequestsOf(call))
            /\ calls' = Append(calls, Started(call, enqCount + 1, "fetching",
                                              RequestsOf(call) - 1, FALSE, <<>>))
            /\ Enqueue
    /\ UNCHANGED <<cache, fetches>>

\* The request of call k is answered: the wrapper of enqueue resolves the
\* promise the fetcher awaits ("next"). Nothing is cached yet: the fetcher,
\* getOrFetch and the method go on in later microtasks.
ServiceAnswered(k, answer) ==
    /\ calls[k].st = "fetching"
    /\ \E i \in LoopOf(calls[k].op) : RequestSettles(i, "ok")
    /\ calls' = [calls EXCEPT
           ![k].st = "next",
           ![k].acc = calls[k].acc \o Received(calls[k], answer)]
    /\ UNCHANGED <<cache, fetches>>

\* The request of call k fails: the wrapper of enqueue rejects the promise
\* the fetcher awaits ("rejected"). The catch of the method runs in a later
\* microtask.
ServiceRejected(k) ==
    /\ calls[k].st = "fetching"
    /\ \E i \in LoopOf(calls[k].op) : RequestSettles(i, "fail")
    /\ calls' = [calls EXCEPT ![k].st = "rejected", ![k].acc = <<>>]
    /\ UNCHANGED <<cache, fetches>>

\* processQueue, which the settling of the request of call k resumed, has
\* gone on: its continuation is queued before that of the fetcher
Resumed(k) ==
    \A i \in 1..Len(loops) :
        ~(loops[i].pc = "afterOp" /\ loops[i].op = calls[k].op)

\* the fetcher of call k goes on with tags left (getMarketsByCategory, lines
\* 226-241): it enqueues the request of its next tag
ServiceResumes(k) ==
    /\ calls[k].st = "next"
    /\ calls[k].left > 0
    /\ Resumed(k)
    /\ calls' = [calls EXCEPT ![k].st = "fetching", ![k].op = enqCount + 1,
                              ![k].left = calls[k].left - 1]
    /\ Enqueue
    /\ UNCHANGED <<cache, fetches>>

\* the fetcher of call k returns what it makes of the markets received, and
\* getOrFetch goes on after `await fetcher()`: it stores the data under the
\* key, with the time of the store (lines 71-74). The method has not resumed.
ServiceCaches(k) ==
    /\ calls[k].st = "next"
    /\ calls[k].left = 0
    /\ Resumed(k)
    /\ cache' = CacheSet(cache, CacheKey(calls[k]),
                         FetcherResults[InputOf(calls[k])][calls[k].acc], now)
    /\ calls' = [calls EXCEPT ![k].st = "cached", ![k].acc = <<>>,
                              ![k].from = cache'[CacheKey(calls[k])].data]
    /\ UNCHANGED <<now, rlVars, fetches>>

\* the method of call k goes on after `await this.getOrFetch(...)` with the
\* data of the fresh entry or of the fetcher: it transforms them and returns
ServiceReturns(k) ==
    /\ calls[k].st \in {"hit", "cached"}
    /\ calls' = [calls EXCEPT
           ![k].st = "returned",
           ![k].value = Returns[InputOf(calls[k])][calls[k].from]]
    /\ UNCHANGED <<now, rlVars, cache, fetches>>

\* the rejection reaches the method of call k through the fetcher and
\* getOrFetch, which store nothing: its catch logs and rethrows
ServiceThrows(k) ==
    /\ calls[k].st = "rejected"
    /\ Resumed(k)
    /\ calls' = [calls EXCEPT ![k].st = "threw"]
    /\ UNCHANGED <<now, rlVars, cache, fetches>>

\* what a step of the service leaves unchanged
notService == <<scanVars, obsVars>>

\* The continuations of the calls in progress, whoever made them: the
\* failure of a request, the store in the cache, the return and the rethrow
\* of a method, the steps of the RateLimiter and the passing of time to the
\* next timer
ServiceContinues ==
    \/ \E k \in 1..Len(calls) : ServiceRejected(k) /\ UNCHANGED notService
    \/ \E k \in 1..Len(calls) : ServiceCaches(k) /\ UNCHANGED notService
    \/ \E k \in 1..Len(calls) : ServiceReturns(k) /\ UNCHANGED notService
    \/ \E k \in 1..Len(calls) : ServiceThrows(k) /\ UNCHANGED notService
    \/ \E i \in 1..Len(loops) : Dispatch(i) /\ UNCHANGED notRL
    \/ \E i \in 1..Len(loops) : AfterRequest(i) /\ UNCHANGED notRL
    \/ \E i \in 1..Len(loops) : TimerFires(i) /\ UNCHANGED notRL
    \/ AdvanceToTimer /\ UNCHANGED notRL

\* The steps of the service that are not particular to a scan: calls of its
\* public methods by other callers (the routes of the server), the answers to
\* them, the next request of a call with tags left, and the continuations
ServiceStep ==
    \/ \E call \in ServiceInputs :
           /\ OutsideCalls < MaxOutsideCalls
           /\ ServiceCall(call)
           /\ UNCHANGED notService
    \/ \E k \in 1..Len(calls) : \E answer \in ServiceAnswers(calls[k]) :
           ~OfCycle(k) /\ ServiceAnswered(k, answer) /\ UNCHANGED notService
    \/ \E k \in 1..Len(calls) : ServiceResumes(k) /\ UNCHANGED notService
    \/ ServiceContinues

\* the service's upstream traffic: the requests the fetchers of its public
\* methods enqueue on its RateLimiter, within the quota of the limiter, and
\* its health checks, made at any moment
HealthNext ==
    \/ \E call \in ServiceInputs : ServiceCall(call) /\ UNCHANGED notService
    \/ \E k \in 1..Len(calls) : \E answer \in ServiceAnswers(calls[k]) :
           ServiceAnswered(k, answer) /\ UNCHANGED notService
    \/ \E k \in 1..Len(calls) : ServiceResumes(k) /\ UNCHANGED notService
    \/ ServiceContinues
    \/ /\ \E answered \in BOOLEAN : HealthCheck(answered)
       /\ UNCHANGED <<cacheVars, scanVars, lastBatch, lastDropped, lastPass,
                      transformed, computed, clears>>

HealthSpec == Init /\ [][HealthNext]_vars

----------------------------------------------------------------------------
(* PolymarketService.getActiveMarkets *)

\* getActiveMarkets(limit) up to its await
GetActiveMarkets(limit) ==
    /\ Len(calls) < MaxActiveCalls
    /\ ServiceCall(ActiveCall(limit))

\* the request of a getActiveMarkets call is answered with rawMarkets
ActiveFetched(k, rawMarkets) ==
    /\ calls[k].method = "getActiveMarkets"
    /\ ServiceAnswered(k, rawMarkets)

\* a PolymarketService under getActiveMarkets calls at arbitrary times, each
\* request answered with a list of markets or a failure, beside the other
\* steps of the service, while time passes by half a TTL of the cache
ActiveNext ==
    \/ \E limit \in Limits : GetActiveMarkets(limit) /\ UNCHANGED notService
    \/ \E k \in 1..Len(calls), rawMarkets \in ActiveAnswers :
           ActiveFetched(k, rawMarkets) /\ UNCHANGED notService
    \/ \E d \in CacheDeltas : CacheTick(d) /\ UNCHANGED notCache
    \/ ServiceStep

ActiveSpec == Init /\ [][ActiveNext]_vars

\* scanPolymarket lines 413-416: markets.forEach(market => this.markets.set(...))
RECURSIVE StoreMarkets(_, _)
StoreMarkets(m, marketList) ==
    IF marketList = <<>> THEN m
    ELSE StoreMarkets(MapSet(m, Head(marketList).id, Head(marketList)),
                      Tail(marketList))

\* a scanPolymarket that stores the bets of the first market of the Map only
StoreBetsOfFirst(b, betsMap) ==
    IF betsMap = <<>> THEN b
    ELSE MapSet(b, Head(betsMap).key, Head(betsMap).value)

\* scanPolymarket lines 418-421: bets.forEach((betArray, marketId) => this.bets.set(...))
RECURSIVE StoreBets(_, _)
StoreBets(b, betsMap) ==
    IF betsMap = <<>> THEN b
    ELSE StoreBets(MapSet(b, Head(betsMap).key, Head(betsMap).value),
                   Tail(betsMap))

\* Array.from(this.bets.values()).flat()
RECURSIVE FlatBets(_)
FlatBets(b) == IF b = <<>> THEN <<>> ELSE Head(b).value \o FlatBets(Tail(b))

\* a calculateArbitrage without its test of the outcomes
calculateArbitrageAnyOutcome(bet1, bet2) ==
    LET totalProbability == bet1.price + bet2.price IN
    IF SumLess(bet1.price, bet2.price, 100)
    THEN [null |-> FALSE, num |-> (100 - totalProbability) * 100,
          den |-> totalProbability]
    ELSE [null |-> TRUE, num |-> 0, den |-> 1]

\* a calculateArbitrage that returns the spread, not divided by the total
calculateArbitrageSpread(bet1, bet2) ==
    LET totalProbability == bet1.price + bet2.price IN
    IF bet1.outcome = bet2.outcome THEN [null |-> TRUE, num |-> 0, den |-> 1]
    ELSE IF SumLess(bet1.price, bet2.price, 100)
         THEN [null |-> FALSE, num |-> (100 - totalProbability) * 100, den |-> 100]
         ELSE [null |-> TRUE, num |-> 0, den |-> 1]

\* calculateArbitrage, prices in cents: the margin in percent as a fraction, or
\* null; the test totalProbability < 1 is the test of the doubles, the margin
\* is the exact quotient of the decimals
calculateArbitrage(bet1, bet2) ==
    LET totalProbability == bet1.price + bet2.price IN
    IF bet1.outcome = bet2.outcome THEN [null |-> TRUE, num |-> 0, den |-> 1]
    ELSE IF SumLess(bet1.price, bet2.price, 100)
         THEN [null |-> FALSE, num |-> (100 - totalProbability) * 100,
               den |-> totalProbability]
         ELSE [null |-> TRUE, num |-> 0, den |-> 1]

\* `bet1.price + bet2.price`, the sum of the two doubles
TotalProbability(bet1, bet2) ==
    NumberSum(NumberOf(bet1.price), NumberOf(bet2.price))

\* `(1 - totalProbability) / totalProbability`
ProfitMargin(bet1, bet2) ==
    DoubleQuotient(DoubleDifference(NumberOf(100), TotalProbability(bet1, bet2)),
                   TotalProbability(bet1, bet2))

\* calculateExpectedProfit: 0 when the prices sum to 1 or more, else
\* `totalCapital * profitMargin`, in the doubles of the program; totalCapital
\* is a whole number
calculateExpectedProfit(bet1, bet2, totalCapital) ==
    IF ~SumLess(bet1.price, bet2.price, 100) THEN NumberOf(0)
    ELSE DoubleProduct(NumberOf(100 * totalCapital), ProfitMargin(bet1, bet2))

\* `throw new Error('No arbitrage opportunity exists')`
Thrown == [threw |-> TRUE, value |-> NotANumber]

\* calculateRequiredCapital: `targetProfit / profitMargin`, or the throw
calculateRequiredCapital(bet1, bet2, targetProfit) ==
    IF ~SumLess(bet1.price, bet2.price, 100) THEN Thrown
    ELSE [threw |-> FALSE,
          value |-> DoubleQuotient(NumberOf(100 * targetProfit),
                                   ProfitMargin(bet1, bet2))]

\* an allocation that halves the capital
calculateStakeAllocationEven(bet1, bet2, totalCapital) ==
    IF ~SumLess(bet1.price, bet2.price, 100)
    THEN [threw |-> TRUE, stake1 |-> NotANumber, stake2 |-> NotANumber]
    ELSE [threw |-> FALSE,
          stake1 |-> DoubleQuotient(NumberOf(100 * totalCapital), NumberOf(200)),
          stake2 |-> DoubleQuotient(NumberOf(100 * totalCapital), NumberOf(200))]

\* calculateStakeAllocation: `(totalCapital * bet.price) / totalProbability`
\* for either bet, in the doubles of the program, or the throw
calculateStakeAllocation(bet1, bet2, totalCapital) ==
    IF ~SumLess(bet1.price, bet2.price, 100)
    THEN [threw |-> TRUE, stake1 |-> NotANumber, stake2 |-> NotANumber]
    ELSE [threw |-> FALSE,
          stake1 |-> DoubleQuotient(
                         DoubleProduct(NumberOf(100 * totalCapital),
                                       NumberOf(bet1.price)),
                         TotalProbability(bet1, bet2)),
          stake2 |-> DoubleQuotient(
                         DoubleProduct(NumberOf(100 * totalCapital),
                                       NumberOf(bet2.price)),
                         TotalProbability(bet1, bet2))]

\* a detection that compares the bets of one platform too
OpportunityAtAnyPlatform(allBets, i, j) ==
    LET bet1 == allBets[i]
        bet2 == allBets[j]
        profitMargin == calculateArbitrage(bet1, bet2)
    IN  IF ~profitMargin.null /\ profitMargin.num > 0
        THEN << [i |-> i, j |-> j, market1 |-> bet1, market2 |-> bet2,
                 profitMargin |-> profitMargin, requiredCapital |-> 1000,
                 estimatedProfit |-> calculateExpectedProfit(bet1, bet2, 1000)] >>
        ELSE <<>>

\* the body of the nested loops of detectArbitrageOpportunities for the pair (i, j)
OpportunityAt(allBets, i, j) ==
    LET bet1 == allBets[i]
        bet2 == allBets[j]
        profitMargin == calculateArbitrage(bet1, bet2)
    IN  IF bet1.platform = bet2.platform THEN <<>>
        ELSE IF ~profitMargin.null /\ profitMargin.num > 0
             THEN << [i |-> i, j |-> j, market1 |-> bet1, market2 |-> bet2,
                      profitMargin |-> profitMargin, requiredCapital |-> 1000,
                      estimatedProfit |-> calculateExpectedProfit(bet1, bet2, 1000)] >>
             ELSE <<>>

RECURSIVE DetectFrom(_, _, _)
DetectFrom(allBets, i, j) ==
    IF i > Len(allBets) THEN <<>>
    ELSE IF j > Len(allBets) THEN DetectFrom(allBets, i + 1, i + 2)
    ELSE OpportunityAt(allBets, i, j) \o DetectFrom(allBets, i, j + 1)

\* a detection that returns after its first find
detectFirstOpportunity(b) ==
    IF DetectFrom(FlatBets(b), 1, 2) = <<>> THEN <<>>
    ELSE <<Head(DetectFrom(FlatBets(b), 1, 2))>>

\* detectArbitrageOpportunities: the list it assigns to arbitrageOpportunities
detectArbitrageOpportunities(b) == DetectFrom(FlatBets(b), 1, 2)

\* a detection that adds its finds to the list it had
Patched(previous, opportunities) == previous \o opportunities

\* line 497, `this.arbitrageOpportunities = opportunities`: the list after a pass
Rebuilt(previous, opportunities) == opportunities

\* a scanAllPlatforms that awaits each scan before it calls the next
ScansInTurn == <<"polymarket">>

\* the scans in the array `Promise.all([...])` is given (lines 384-387); each
\* element is a call, so all four are called before the await
Scans == <<"polymarket", "kalshi", "manifold", "predictit">>

\* where the scans stand when scanAllPlatforms reaches its await: a scan that
\* was called has run to its first await, which scanPolymarket has (on
\* getMarketsWithBets) and the three stubs have not, so that they are resolved
StatusAtAwait(called) ==
    [s \in Sources |->
        IF \A n \in 1..Len(called) : called[n] # s THEN "notStarted"
        ELSE IF s = "polymarket" THEN "fetching" ELSE "resolved"]

\* the stores the scans have made
StoresMade ==
    Cardinality({c \in 1..Len(cycles) : cycles[c].status["polymarket"] = "resolved"})

\* time passes between the steps of scan cycles, by half a TTL of the cache
ScanTick(d) ==
    /\ now + d <= ScanMaxTime
    /\ now' = now + d
    /\ UNCHANGED cacheVars

\* scanAllPlatforms up to its await: the four scans are called; the three
\* stubs run to their end; scanPolymarket calls getMarketsWithBets(100) and
\* awaits it (`call`: its record in `calls`). `overlaps` records whether an
\* earlier cycle was in progress at the call, `before` the Maps at the call
\* and the stores made until then.
ScanAllPlatforms ==
    /\ Len(cycles) < MaxCycles
    /\ ServiceCall(ScanCall)
    /\ cycles' = Append(cycles,
           [pc |-> "awaitAll", detected |-> FALSE,
            overlaps |-> \E c \in 1..Len(cycles) : cycles[c].pc = "awaitAll",
            call |-> Len(calls) + 1,
            before |-> [markets |-> markets, bets |-> bets, stores |-> StoresMade],
            status |-> StatusAtAwait(Scans)])
    /\ UNCHANGED <<markets, bets, arbitrageOpportunities>>

\* the request of the scan of cycle c is answered with the events
PolymarketAnswered(c, events) ==
    /\ cycles[c].status["polymarket"] = "fetching"
    /\ ServiceAnswered(cycles[c].call, events)

\* scanPolymarket of cycle c goes on after `await getMarketsWithBets(100)`
\* with the markets and the bets Map returned: it stores every market and
\* every bet list (lines 413-421) and resolves
PolymarketStores(c) ==
    /\ cycles[c].status["polymarket"] = "fetching"
    /\ calls[cycles[c].call].st = "returned"
    /\ markets' = StoreMarkets(markets, calls[cycles[c].call].value.markets)
    /\ bets' = StoreBets(bets, calls[cycles[c].call].value.bets)
    /\ cycles' = [cycles EXCEPT ![c].status["polymarket"] = "resolved"]
    /\ UNCHANGED arbitrageOpportunities

\* a scanPolymarket without its catch: the failure rejects its promise
PolymarketRethrows(c) ==
    /\ cycles[c].status["polymarket"] = "fetching"
    /\ calls[cycles[c].call].st = "threw"
    /\ cycles' = [cycles EXCEPT ![c].status["polymarket"] = "rejected"]
    /\ UNCHANGED <<markets, bets, arbitrageOpportunities>>

\* getMarketsWithBets of cycle c has thrown: scanPolymarket catches, logs and
\* resolves (lines 427-430), having stored nothing
PolymarketCatches(c) ==
    /\ cycles[c].status["polymarket"] = "fetching"
    /\ calls[cycles[c].call].st = "threw"
    /\ cycles' = [cycles EXCEPT ![c].status["polymarket"] = "failed"]
    /\ UNCHANGED <<markets, bets, arbitrageOpportunities>>

\* a scanAllPlatforms that does not await its scans
NotAwaited(cy) == TRUE

\* `await Promise.all([...])` is over: every scan resolved, or one rejected
AllSettled(cy) ==
    \/ \A s \in Sources : cy.status[s] \in {"resolved", "failed"}
    \/ \E s \in Sources : cy.status[s] = "rejected"

\* scanAllPlatforms after its await: detection and return, or the rethrow
AfterScans(c) ==
    /\ cycles[c].pc = "awaitAll"
    /\ AllSettled(cycles[c])
    /\ IF \E s \in Sources : cycles[c].status[s] = "rejected"
       THEN /\ cycles' = [cycles EXCEPT ![c].pc = "threw"]
            /\ UNCHANGED arbitrageOpportunities
       ELSE /\ arbitrageOpportunities' =
                   Rebuilt(arbitrageOpportunities, detectArbitrageOpportunities(bets))
            /\ cycles' = [cycles EXCEPT ![c].pc = "done", ![c].detected = TRUE]
    /\ UNCHANGED <<markets, bets>>

\* the detection pass of a cycle, observed: the bets it read and the list it made
ObservedAfterScans(c) ==
    /\ AfterScans(c)
    /\ lastPass' = IF cycles'[c].detected
                   THEN [count |-> lastPass.count + 1,
                         before |-> Len(arbitrageOpportunities),
                         bets |-> bets,
                         list |-> arbitrageOpportunities']
                   ELSE lastPass
    /\ UNCHANGED <<lastBatch, lastDropped, transformed, computed, readVars>>

\* a MarketScannerService with its PolymarketService: scan cycles started at
\* arbitrary moments, also while another cycle runs, each request answered
\* with events or a failure, every continuation a step of its own, beside
\* the other callers of the service
ScanNext ==
    \/ ScanAllPlatforms /\ UNCHANGED obsVars
    \/ \E c \in 1..Len(cycles), answer \in ScanAnswers :
           PolymarketAnswered(c, answer.events) /\ UNCHANGED notService
    \/ \E c \in 1..Len(cycles) :
           PolymarketStores(c) /\ UNCHANGED <<outsideScan, obsVars>>
    \/ \E c \in 1..Len(cycles) :
           PolymarketCatches(c) /\ UNCHANGED <<outsideScan, obsVars>>
    \/ \E c \in 1..Len(cycles) : ObservedAfterScans(c) /\ UNCHANGED outsideScan
    \/ \E d \in CacheDeltas : ScanTick(d) /\ UNCHANGED notCache
    \/ ServiceStep

ScanSpec == Init /\ [][ScanNext]_vars

\* the continuations of a failed request: processQueue, the catch of the
\* method, the catch of scanPolymarket, scanAllPlatforms after its await
FailureContinues ==
    \/ \E i \in 1..Len(loops) : AfterRequest(i) /\ UNCHANGED notRL
    \/ \E k \in 1..Len(calls) : ServiceThrows(k) /\ UNCHANGED notService
    \/ \E c \in 1..Len(cycles) :
           PolymarketCatches(c) /\ UNCHANGED <<outsideScan, obsVars>>
    \/ \E c \in 1..Len(cycles) : ObservedAfterScans(c) /\ UNCHANGED outsideScan

\* the event loop runs the continuation of every settled await
ScanFairSpec == ScanSpec /\ WF_vars(FailureContinues)

\* the answer to a scan, observed: how many of its records are not valid
ObservedAnswer(c, answer) ==
    /\ PolymarketAnswered(c, answer.events)
    /\ lastDropped' = answer.dropped
    /\ UNCHANGED <<lastBatch, lastPass, transformed, computed, readVars>>

\* the store of scanPolymarket, observed: the batch it merges is kept
ObservedStore(c) ==
    /\ PolymarketStores(c)
    /\ lastBatch' = calls[cycles[c].call].from
    /\ UNCHANGED <<lastDropped, lastPass, transformed, computed, readVars>>

\* the scanner with every answer and every store observed
MergeNext ==
    \/ ScanAllPlatforms /\ UNCHANGED obsVars
    \/ \E c \in 1..Len(cycles), answer \in ScanAnswers :
           ObservedAnswer(c, answer) /\ UNCHANGED scanVars
    \/ \E c \in 1..Len(cycles) : ObservedStore(c) /\ UNCHANGED outsideScan
    \/ \E c \in 1..Len(cycles) :
           PolymarketCatches(c) /\ UNCHANGED <<outsideScan, obsVars>>
    \/ \E c \in 1..Len(cycles) : AfterScans(c) /\ UNCHANGED notScan
    \/ \E d \in CacheDeltas : ScanTick(d) /\ UNCHANGED notCache
    \/ ServiceStep

MergeSpec == Init /\ [][MergeNext]_vars

\* the platforms of the bets detection and the capital functions are given:
\* two values of MarketPlatform
Platforms == {"polymarket", "kalshi"}

\* Yes and No prices of the bets given, in cents: sums of 100, of 100 and of 90
BetPricePairs == {<<40, 60>>, <<55, 45>>, <<40, 50>>}

\* Bet records (BetSchema): the Yes and the No bet of market id on a platform
BetArray(platform, id, pp) ==
    << [marketId |-> id, platform |-> platform, outcome |-> "YES",
        price |-> pp[1], displayPrice |-> pp[1] * 100],
       [marketId |-> id, platform |-> platform, outcome |-> "NO",
        price |-> pp[2], displayPrice |-> pp[2] * 100] >>

\* the values of `private bets: Map<string, Bet[]>` detection is applied to:
\* every Map of the type over the ids, in every insertion order, with the bets
\* of each market on either platform. The scans of the code store bets of
\* polymarket only (ScanSpec); detection is examined here as the function of
\* the Map and of the list before that it is.
BetMaps ==
    LET Entries(id) == {[key |-> id, value |-> BetArray(pl, id, pp)] :
                           pl \in Platforms, pp \in BetPricePairs}
        RECURSIVE Over(_)
        Over(ids) ==
            {<<>>} \cup
            UNION {{<<e>> \o m : e \in Entries(id), m \in Over(ids \ {id})} :
                      id \in ids}
    IN  Over(MarketIds)

\* one call of detectArbitrageOpportunities on a scanner whose bets Map is b
\* and whose list is the one of the pass before, observed
DetectionPass(b) ==
    /\ lastPass.count < MaxPasses
    /\ lastPass' = [count |-> lastPass.count + 1,
                    before |-> Len(lastPass.list),
                    bets |-> b,
                    list |-> Rebuilt(lastPass.list, detectArbitrageOpportunities(b))]
    /\ UNCHANGED <<lastBatch, lastDropped, transformed, computed, readVars>>

\* the detector alone, applied to any bet Map
DetectNext ==
    \E b \in BetMaps :
        DetectionPass(b) /\ UNCHANGED <<now, rlVars, cacheVars, scanVars>>

DetectSpec == Init /\ [][DetectNext]_vars

\* A collection a getter returned is kept in `reads.last` as its reader holds
\* it: `value` is what it contained when returned, `held` whether the scanner
\* still holds that very array, `frozen` what the array contained when the
\* scanner let go of it.

\* what the scanner holds where method(arg) reads from
HeldFor(method, arg) ==
    IF method = "getArbitrageOpportunities" THEN arbitrageOpportunities
    ELSE bets[CHOOSE i \in 1..Len(bets) : bets[i].key = arg].value

\* what the array returned to reader r contains now: while the scanner holds
\* it, what the scanner holds
ObjectNow(r) == IF r.held THEN HeldFor(r.method, r.arg) ELSE r.frozen

\* a writer that empties and refills the array the scanner holds: the
\* returned array is still the one held
RefilledInPlace(r, contents) == r

\* `this.arbitrageOpportunities = opportunities` and `this.bets.set(marketId,
\* betArray)` seen from an array r returned earlier: the scanner now holds
\* another array, the returned one keeps the elements it had
Reassigned(r, contents) == [r EXCEPT !.held = FALSE, !.frozen = contents]

\* the returned collections after the scanner wrote where method(arg) reads from
AfterWrite(rs, method, arg) ==
    [rs EXCEPT !.last =
        [k \in DOMAIN rs.last |->
            IF rs.last[k].method = method /\ rs.last[k].arg = arg /\ rs.last[k].held
            THEN Reassigned(rs.last[k], HeldFor(method, arg)) ELSE rs.last[k]]]

\* the returned collections after the `this.bets.set(marketId, betArray)` of
\* lines 419-421 for every entry of betsMap
RECURSIVE AfterStores(_, _)
AfterStores(rs, betsMap) ==
    IF betsMap = <<>> THEN rs
    ELSE AfterStores(AfterWrite(rs, "getBetsForMarket", Head(betsMap).key),
                     Tail(betsMap))

\* the steps of a scan that write the collections of the scanner, with the
\* collections returned earlier
ReadStore(c) ==
    /\ PolymarketStores(c)
    /\ reads' = AfterStores(reads, calls[cycles[c].call].value.bets)

ReadAfterScans(c) ==
    /\ AfterScans(c)
    /\ reads' = IF cycles'[c].detected
                THEN AfterWrite(reads, "getArbitrageOpportunities", 0)
                ELSE reads

\* the reads after a getter handed an array to its caller
Handed(method, arg, contents, held) ==
    [count |-> reads.count + 1,
     last |-> <<[method |-> method, arg |-> arg, value |-> contents,
                 held |-> held, frozen |-> contents]>>]

\* getArbitrageOpportunities(): the array the scanner holds
GetArbitrageOpportunities ==
    /\ reads.count < MaxReads
    /\ reads' = Handed("getArbitrageOpportunities", 0, arbitrageOpportunities, TRUE)
    /\ UNCHANGED scanVars

\* getMarkets(): `Array.from(this.markets.values())`, a new array
GetMarkets ==
    /\ reads.count < MaxReads
    /\ reads' = Handed("getMarkets", 0,
                       [i \in 1..Len(markets) |-> markets[i].value], FALSE)
    /\ UNCHANGED scanVars

\* getBetsForMarket(marketId): `this.bets.get(marketId) || []`, the stored
\* array or a new empty one
GetBetsForMarket(marketId) ==
    /\ reads.count < MaxReads
    /\ LET stored == {i \in 1..Len(bets) : bets[i].key = marketId} IN
       reads' = IF stored = {}
                THEN Handed("getBetsForMarket", marketId, <<>>, FALSE)
                ELSE Handed("getBetsForMarket", marketId,
                            bets[CHOOSE i \in stored : TRUE].value, TRUE)
    /\ UNCHANGED scanVars

\* what a step of the scanner with its readers leaves unchanged
notRead == <<lastBatch, lastDropped, lastPass, transformed, computed, clears>>

\* the scanner read at arbitrary moments between the steps of its scans, of
\* its service and of the other callers of the service
ReadNext ==
    \/ ScanAllPlatforms /\ UNCHANGED obsVars
    \/ \E c \in 1..Len(cycles), answer \in ScanAnswers :
           PolymarketAnswered(c, answer.events) /\ UNCHANGED notService
    \/ \E c \in 1..Len(cycles) :
           ReadStore(c) /\ UNCHANGED <<outsideScan, notRead>>
    \/ \E c \in 1..Len(cycles) :
           PolymarketCatches(c) /\ UNCHANGED <<outsideScan, obsVars>>
    \/ \E c \in 1..Len(cycles) :
           ReadAfterScans(c) /\ UNCHANGED <<outsideScan, notRead>>
    \/ \E d \in CacheDeltas : ScanTick(d) /\ UNCHANGED notCache
    \/ ServiceContinues
    \/ /\ \/ GetArbitrageOpportunities
          \/ GetMarkets
          \/ \E id \in MarketIds : GetBetsForMarket(id)
       /\ UNCHANGED <<outsideScan, notRead>>

ReadSpec == Init /\ [][ReadNext]_vars

\* prices of the bets given to the capital functions, in cents: sums below,
\* at and above 100, and prices of 0
CapitalPrices == {0, 10, 40, 45, 50, 55, 60, 100}

\* one call of each capital function on a Yes bet and a No bet of two
\* platforms; calculateExpectedProfit has no throw statement
Compute(bet1, bet2, totalCapital, targetProfit) ==
    /\ computed = <<>>
    /\ computed' =
           << [bet1 |-> bet1, bet2 |-> bet2,
               totalCapital |-> totalCapital, targetProfit |-> targetProfit,
               requiredCapital |-> calculateRequiredCapital(bet1, bet2, targetProfit),
               allocation |-> calculateStakeAllocation(bet1, bet2, totalCapital),
               expectedProfit |->
                   [threw |-> FALSE,
                    value |-> calculateExpectedProfit(bet1, bet2, totalCapital)]] >>
    /\ UNCHANGED <<lastBatch, lastDropped, lastPass, transformed, readVars>>

\* the capital functions alone, applied to any two bets, with a capital of
\* 100 or of 1000 (the capital of the detector) and the default target profit
CapitalNext ==
    \E p1 \in CapitalPrices, p2 \in CapitalPrices,
       totalCapital \in {100, 1000}, targetProfit \in {100} :
        /\ Compute(BetArray("polymarket", 1, <<p1, p1>>)[1],
                   BetArray("kalshi", 2, <<p2, p2>>)[2],
                   totalCapital, targetProfit)
        /\ UNCHANGED <<now, rlVars, cacheVars, scanVars>>

CapitalSpec == Init /\ [][CapitalNext]_vars

\* upstream records from which no price can be extracted: no tokens, and
\* outcomePrices absent or without a number
UnpricedMarkets ==
    {[TokenMarket(m, <<0, 0>>) EXCEPT !.tokens = None, !.outcomePrices = o] :
        m \in MarketIds,
        o \in {None, Some(ArrayText(<<Quoted(<<"a", "b", "c">>)>>))}}

\* the two batch methods of the transformer applied to one batch
TransformBatch(polyMarkets) ==
    /\ transformed = <<>>
    /\ transformed' =
           << [input |-> polyMarkets,
               markets |-> transformMarkets(polyMarkets),
               betsMap |-> transformMarketsToBets(polyMarkets)] >>
    /\ UNCHANGED <<lastBatch, lastDropped, lastPass, computed, readVars>>

\* the batch methods alone, applied to any batch of priced and unpriced records
BatchNext ==
    \E n \in 0..MaxBatch :
        \E polyMarkets \in [1..n -> RawMarkets \cup UnpricedMarkets] :
            /\ TransformBatch(polyMarkets)
            /\ UNCHANGED <<now, rlVars, cacheVars, scanVars>>

BatchSpec == Init /\ [][BatchNext]_vars

----------------------------------------------------------------------------
(* Claims about the RateLimiter *)

\* the dispatches before dispatch i that lie within the 60 s up to it: the 60000
\* milliseconds that end with the one of dispatch i, as getStatus counts them
EarlierInWindow(i) ==
    {j \in 1..(i - 1) : dispatched[j].at > dispatched[i].at - WindowMs}

\* C1: at each dispatch, fewer than maxRequestsPerMinute earlier dispatches lie
\* within the preceding 60 seconds, so no rolling 60-second window holds more
\* than maxRequestsPerMinute dispatches.
C1_QuotaPerWindow ==
    \A i \in 1..Len(dispatched) :
        Cardinality(EarlierInWindow(i)) < maxRequestsPerMinute

\* a dispatch beyond the quota that was made after a quota wait
C1_Witness ==
    \E i \in 1..Len(dispatched) :
        /\ i > maxRequestsPerMinute
        /\ dispatched[i].waited
        /\ Cardinality(EarlierInWindow(i)) = maxRequestsPerMinute - 1

\* C2: operations are dispatched in the order of their enqueue calls (call k
\* enqueues operation k), and an operation is started only after every
\* operation dispatched before it has finished.
C2_FifoSerial ==
    \A i \in 1..Len(dispatched) :
        /\ dispatched[i].op = i
        /\ i < Len(dispatched) => opState[i] = "done"

\* all operations were dispatched, and the queue once held several of them
C2_Witness ==
    /\ Len(dispatched) = MaxOps
    /\ \E i \in 2..MaxOps : dispatched[i].at = dispatched[1].at + minDelayMs

\* the state part of C3: an operation is dispatched at most once, a finished or
\* running one exactly once, the first `quota` dispatches never wait for quota,
\* and a non-empty queue always has a drain loop serving it
C3_Safety ==
    /\ \A i, j \in 1..Len(dispatched) :
           dispatched[i].op = dispatched[j].op => i = j
    /\ \A o \in Ops : opState[o] \in {"running", "done"} =>
           \E i \in 1..Len(dispatched) : dispatched[i].op = o
    /\ \A i \in 1..Len(dispatched) :
           /\ i <= maxRequestsPerMinute => ~dispatched[i].waited
           /\ i > maxRequestsPerMinute =>
                 dispatched[i].at >= dispatched[i - maxRequestsPerMinute].at + WindowMs
    /\ Len(queue) > 0 => processing /\ Len(loops) > 0

\* C3: every enqueued operation is invoked exactly once and its caller's promise
\* eventually settles, the first `quota` operations without a quota wait; no
\* operation is stranded in the queue.
C3_AllComplete ==
    /\ []C3_Safety
    /\ \A o \in Ops :
           (opState[o] = "queued") ~> (promise[o] \in {"resolved", "rejected"})

\* more operations than the quota are enqueued at once; all have settled, the
\* ones beyond the quota after a wait
C3_Witness ==
    /\ Len(dispatched) = MaxOps
    /\ \A o \in Ops : promise[o] \in {"resolved", "rejected"}
    /\ \A i \in 1..MaxOps : dispatched[i].waited <=> i > maxRequestsPerMinute
    /\ dispatched[maxRequestsPerMinute + 1].at = dispatched[1].at + WindowMs + BufferMs
    /\ Len(loops) = 0

\* C4: a failed operation rejects the promise of its own caller and only that
\* one: every finished operation's promise carries that operation's outcome,
\* every unfinished one's is pending, and the drain loop stays active while
\* operations are queued.
C4_FailureIsolated ==
    /\ \A o \in Ops :
           /\ opState[o] = "done" /\ outcome[o] = "fail" => promise[o] = "rejected"
           /\ opState[o] = "done" /\ outcome[o] = "ok" => promise[o] = "resolved"
           /\ opState[o] \in {"queued", "running"} => promise[o] = "pending"
    /\ Len(queue) > 0 => processing /\ Len(loops) = 1

\* an operation failed, and operations enqueued behind it were dispatched and
\* resolved
C4_Witness ==
    \E o, p \in Ops :
        /\ o < p
        /\ promise[o] = "rejected"
        /\ promise[p] = "resolved"
        /\ \E i, j \in 1..Len(dispatched) :
               i < j /\ dispatched[i].op = o /\ dispatched[j].op = p

\* C5: at most one execution of processQueue is past its guard at any time,
\* and `processing` tells whether there is one.
C5_SingleWorker ==
    /\ Len(loops) <= 1
    /\ processing <=> Len(loops) = 1

\* enqueue calls arrived while a drain loop was active
C5_Witness ==
    /\ Len(loops) = 1
    /\ Len(queue) >= 2
    /\ Len(dispatched) >= 1

----------------------------------------------------------------------------
(* Claims about the response cache *)

\* calls c1 and c2, c1 started first, are on the same key and start within one
\* TTL of each other
WithinTtl(c1, c2) ==
    /\ c1 < c2
    /\ calls[c1].key = calls[c2].key
    /\ calls[c2].startedAt - calls[c1].startedAt < defaultCacheTTL

\* the fetcher invocations made by the calls in S
FetchesBy(S) == {i \in 1..Len(fetches) : fetches[i].call \in S}

\* C6: two getOrFetch calls on one key made within one TTL window of each other,
\* the first of which finds nothing fresh and neither of which fails, invoke the
\* fetcher exactly once in total, whether the second starts after the first
\* call's fetch has completed or while that fetch is still in flight.
C6_OnceWithinTtl ==
    \A c1, c2 \in 1..Len(calls) :
        /\ WithinTtl(c1, c2)
        /\ ~calls[c1].hit
        /\ calls[c1].st # "threw"
        /\ calls[c2].st # "threw"
        => Cardinality(FetchesBy({c1, c2})) = 1

\* the sequential half of C6, which the code keeps: when the first call's fetch
\* has completed successfully before the second call starts, the second call is
\* a hit and the fetcher has been invoked once.
C6_OnceAfterCompletion ==
    \A c1, c2 \in 1..Len(calls) :
        /\ WithinTtl(c1, c2)
        /\ ~calls[c1].hit
        /\ calls[c1].st = "returned"
        /\ c1 \notin calls[c2].inflight
        => /\ calls[c2].hit
           /\ Cardinality(FetchesBy({c1, c2})) = 1

\* a second call, later but within the TTL, served from what the first fetched
C6_Witness ==
    \E c1, c2 \in 1..Len(calls) :
        /\ WithinTtl(c1, c2)
        /\ ~calls[c1].hit
        /\ calls[c1].st = "returned"
        /\ c1 \notin calls[c2].inflight
        /\ calls[c2].startedAt > calls[c1].startedAt
        /\ calls[c2].ret = c1

\* the hit/miss rule on what call c found when it started, and what follows
C7_Rule(c) ==
    /\ calls[c].hit <=>
          /\ calls[c].present
          /\ calls[c].startedAt - calls[c].seen.timestamp < defaultCacheTTL
    /\ calls[c].hit =>
          /\ calls[c].st = "returned"
          /\ calls[c].ret = calls[c].seen.data
          /\ FetchesBy({c}) = {}
    /\ ~calls[c].hit =>
          /\ Cardinality(FetchesBy({c})) = 1
          /\ calls[c].st = "returned" => calls[c].ret = c

\* a miss that returns stores the fetcher's result under its key with the
\* current timestamp, replacing what was there and nothing else
C7_Store ==
    \A c \in 1..Len(calls) :
        calls[c].st = "fetching" /\ calls'[c].st = "returned" =>
            /\ DOMAIN cache' = DOMAIN cache \cup {calls[c].key}
            /\ cache'[calls[c].key] = [data |-> c, timestamp |-> now]
            /\ \A k \in DOMAIN cache \ {calls[c].key} : cache'[k] = cache[k]

\* C7: a call is a hit exactly when an entry exists and now - storedAt < ttl; a
\* hit returns the stored value without invoking the fetcher; a miss invokes the
\* fetcher once, stores its result with the current timestamp and returns it.
C7_HitMissRule ==
    /\ [](\A c \in 1..Len(calls) : C7_Rule(c))
    /\ [][C7_Store]_vars

\* an entry aged exactly the TTL was a miss, was replaced, and the replacement
\* served a later call
C7_Witness ==
    \E c, d \in 1..Len(calls) :
        /\ c < d
        /\ calls[c].present
        /\ calls[c].startedAt - calls[c].seen.timestamp = defaultCacheTTL
        /\ ~calls[c].hit
        /\ calls[d].hit
        /\ calls[d].ret = c

\* a failed call leaves the cache as it is
C8_Step ==
    \A c \in 1..Len(calls) :
        calls[c].st = "fetching" /\ calls'[c].st = "threw" => cache' = cache

\* no entry holds the outcome of a failed fetch, a failed call returns nothing,
\* and a call that comes after a failed one and finds the key as the failed one
\* found it invokes the fetcher again
C8_State ==
    /\ \A k \in DOMAIN cache : calls[cache[k].data].st = "returned"
    /\ \A c \in 1..Len(calls) : calls[c].st = "threw" =>
          /\ ~calls[c].hit
          /\ calls[c].ret = 0
    /\ \A c, d \in 1..Len(calls) :
          /\ c < d
          /\ calls[c].key = calls[d].key
          /\ calls[c].st = "threw"
          /\ c \notin calls[d].inflight
          /\ calls[d].present = calls[c].present
          /\ calls[d].seen = calls[c].seen
          => FetchesBy({d}) # {}

\* C8: when the fetcher fails the failure propagates, the cache is unchanged,
\* and the next getOrFetch for the key invokes the fetcher again.
C8_FailureNotCached ==
    /\ []C8_State
    /\ [][C8_Step]_vars

\* a call failed on a stale entry, and the next call on the key fetched again
C8_Witness ==
    \E c, d \in 1..Len(calls) :
        /\ c < d
        /\ calls[c].key = calls[d].key
        /\ calls[c].st = "threw"
        /\ c \notin calls[d].inflight
        /\ calls[c].present
        /\ calls[d].seen = calls[c].seen
        /\ FetchesBy({d}) # {}

----------------------------------------------------------------------------
(* Claims about the scan orchestrator *)

\* cycle c takes this step: it starts, or its record or that of its call changes
StepOf(c) ==
    \/ c > Len(cycles)
    \/ cycles'[c] # cycles[c]
    \/ calls'[cycles[c].call] # calls[cycles[c].call]

\* the fetch of cycle c is pending or has failed
Unanswered(cy, cs) ==
    /\ cy.status["polymarket"] \in {"fetching", "failed"}
    /\ cs[cy.call].st \in {"fetching", "rejected", "threw"}

\* no scanAllPlatforms call throws; in a cycle whose Polymarket fetch failed the
\* other scans have run, and the cycle ends only with detection done
C9_State ==
    \A c \in 1..Len(cycles) :
        /\ cycles[c].pc # "threw"
        /\ calls[cycles[c].call].st \in {"rejected", "threw"} =>
              /\ \A s \in Sources \ {"polymarket"} : cycles[c].status[s] = "resolved"
              /\ cycles[c].pc = "done" => cycles[c].detected

\* no step of a cycle whose Polymarket fetch is pending or has failed changes
\* the market or the bet map, and its detection runs on the bets stored
C9_Step ==
    \A c \in 1..Len(cycles') :
        StepOf(c) /\ Unanswered(cycles'[c], calls') =>
            /\ markets' = markets
            /\ bets' = bets
            /\ cycles'[c].detected =>
                  arbitrageOpportunities' = detectArbitrageOpportunities(bets)

\* cycle c, whose fetch failed, ends in this step
FailedCycleEnds(c) ==
    /\ cycles[c].status["polymarket"] = "failed"
    /\ cycles[c].pc = "awaitAll"
    /\ cycles'[c].pc = "done"

\* C9 as stated, for the Maps: when a cycle whose fetch failed ends, the market
\* and bet maps are exactly as they were before the cycle.
C9_MapsAsBefore ==
    [][\A c \in 1..Len(cycles) :
           FailedCycleEnds(c) =>
               /\ markets = cycles[c].before.markets
               /\ bets = cycles[c].before.bets]_vars

\* the same unless another cycle stored in the meantime
C9_MapsAsBeforeUnlessStored ==
    \A c \in 1..Len(cycles) :
        FailedCycleEnds(c) /\ StoresMade = cycles[c].before.stores =>
            /\ markets = cycles[c].before.markets
            /\ bets = cycles[c].before.bets

\* C9, amended: a source's fetch failure is absorbed: scanAllPlatforms resolves
\* without error, the other sources' scans run, detection runs on the data
\* stored, and the failing cycle changes neither Map: when it ends they are as
\* they were before it, unless another cycle stored in the meantime.
C9_ScanIsolation ==
    /\ []C9_State
    /\ [][C9_Step /\ C9_MapsAsBeforeUnlessStored]_vars
    /\ \A c \in 1..MaxCycles :
          (c <= Len(cycles) /\ calls[cycles[c].call].st = "rejected")
              ~> (c <= Len(cycles) /\ cycles[c].pc = "done" /\ cycles[c].detected)

\* a cycle whose fetch failed has ended, over data an earlier fetch stored
C9_Witness ==
    \E c \in 1..Len(cycles) :
        /\ cycles[c].status["polymarket"] = "failed"
        /\ calls[cycles[c].call].st = "threw"
        /\ cycles[c].pc = "done"
        /\ cycles[c].detected
        /\ Len(markets) > 0
        /\ Len(bets) > 0

\* C10: the per-source scans of a cycle are started together, detection runs
\* only once every source scan has resolved, successfully or not, and
\* scanAllPlatforms resolves only after detection has run.
C10_FanOutFanIn ==
    \A c \in 1..Len(cycles) :
        /\ \A s \in Sources : cycles[c].status[s] # "notStarted"
        /\ cycles[c].detected =>
              \A s \in Sources : cycles[c].status[s] \in {"resolved", "failed"}
        /\ cycles[c].pc = "done" => cycles[c].detected

\* two cycles overlapped; one has ended after its fetch stored, the other still
\* awaits its scan, whose request has been answered and whose batch is cached
C10_Witness ==
    \E c, d \in 1..Len(cycles) :
        /\ cycles[c].pc = "done"
        /\ cycles[c].status["polymarket"] = "resolved"
        /\ Len(bets) > 0
        /\ cycles[d].pc = "awaitAll"
        /\ cycles[d].status["polymarket"] = "fetching"
        /\ calls[cycles[d].call].st = "cached"

\* the entry of key k in a Map
Has(m, k) == \E i \in 1..Len(m) : m[i].key = k
Get(m, k) == m[CHOOSE i \in 1..Len(m) : m[i].key = k].value

\* the ids of a batch, and the record a batch holds last for an id
IdsOf(b) == {b[i].id : i \in 1..Len(b)}
LastOf(b, id) ==
    b[CHOOSE i \in 1..Len(b) :
          b[i].id = id /\ \A j \in (i + 1)..Len(b) : b[j].id # id]

\* the Polymarket scan of cycle c stores in this step
StoreStep(c) ==
    /\ c <= Len(cycles)
    /\ cycles[c].status["polymarket"] = "fetching"
    /\ cycles'[c].status["polymarket"] = "resolved"

\* a Map holds one entry per key
OneEntryPerKey(m) ==
    \A i, j \in 1..Len(m) : m[i].key = m[j].key => i = j

\* what the transformer makes of each upstream record
GivenBy ==
    [polyMarket \in RawMarkets |->
        [market |-> transformMarket(polyMarket),
         bets |-> transformToBets(polyMarket)]]

\* the maps after a store of batch b: the ids of b hold what b gives them,
\* every other id holds what it held
C11_Merged(b) ==
    \A id \in MarketIds :
        IF id \in IdsOf(b)
        THEN /\ Has(markets', id)
             /\ Some(Get(markets', id)) = GivenBy[LastOf(b, id)].market
             /\ Has(bets', id)
             /\ Get(bets', id) = GivenBy[LastOf(b, id)].bets
        ELSE /\ Has(markets', id) = Has(markets, id)
             /\ Has(markets, id) => Get(markets', id) = Get(markets, id)
             /\ Has(bets', id) = Has(bets, id)
             /\ Has(bets, id) => Get(bets', id) = Get(bets, id)

C11_Step ==
    IF \E c \in 1..Len(cycles) : StoreStep(c)
    THEN C11_Merged(lastBatch')
    ELSE markets' = markets /\ bets' = bets

\* C11: merge by overwrite: after a successful source scan every id of the
\* batch holds exactly the batch's Market and bet list, the entries of ids
\* absent from the batch are unchanged, and no step removes an entry.
C11_MergeByOverwrite ==
    /\ [](OneEntryPerKey(markets) /\ OneEntryPerKey(bets))
    /\ [][C11_Step]_vars

\* the latest batch held market 1 only, stored before market 2 by an earlier
\* scan: the entry of 1 was overwritten in place and the entry of 2 kept
C11_Witness ==
    /\ Len(lastBatch) > 0
    /\ IdsOf(lastBatch) = {1}
    /\ Len(bets) = 2
    /\ bets[1].key = 1
    /\ bets[2].key = 2
    /\ bets[1].value = transformToBets(LastOf(lastBatch, 1))
    /\ Len(markets) = 2

\* C20: after any sequence of scans every bet pair held in the bet map belongs
\* to a market whose Yes price plus No price lies within [0.8, 1.2]; records
\* outside the band are dropped before anything is stored.
C20_StoredWithinBand ==
    \A k \in 1..Len(bets) :
        /\ Len(bets[k].value) = 2
        /\ bets[k].value[1].price + bets[k].value[2].price >= 80
        /\ bets[k].value[1].price + bets[k].value[2].price <= 120

\* the latest answer held records outside the band, which were dropped, and
\* records within it, which were stored
C20_Witness ==
    /\ Len(cycles) = 1
    /\ lastDropped > 0
    /\ Len(lastBatch) > 0
    /\ \A id \in IdsOf(lastBatch) : Has(bets, id)

----------------------------------------------------------------------------
(* Claims about the detector *)

\* the bets the latest pass was applied to, flattened as it saw them
Stored == FlatBets(lastPass.bets)

\* the list the latest pass made
Emitted == lastPass.list

\* the step is a detection pass
PassStep == lastPass'.count # lastPass.count

\* every Opportunity of the list pairs the bets at its two positions
Current(list) ==
    \A k \in 1..Len(list) :
        /\ list[k].i < list[k].j
        /\ list[k].j <= Len(Stored)
        /\ list[k].market1 = Stored[list[k].i]
        /\ list[k].market2 = Stored[list[k].j]

\* C12: every emitted Opportunity pairs bets of different outcomes and of
\* different platforms; bets of one platform or of one outcome are never paired.
C12_DetectorExclusion ==
    \A k \in 1..Len(Emitted) :
        /\ Emitted[k].market1.outcome # Emitted[k].market2.outcome
        /\ Emitted[k].market1.platform # Emitted[k].market2.platform

\* a pass has listed an Opportunity over bets that also hold a pair of one
\* platform and a pair of one outcome, each with prices summing below 1.0
C12_Witness ==
    /\ lastPass.count > 0
    /\ Len(Emitted) > 0
    /\ Current(Emitted)
    /\ \E i, j \in 1..Len(Stored) :
          /\ i < j
          /\ Stored[i].platform = Stored[j].platform
          /\ Stored[i].outcome # Stored[j].outcome
          /\ Stored[i].price + Stored[j].price < 100
    /\ \E i, j \in 1..Len(Stored) :
          /\ i < j
          /\ Stored[i].platform # Stored[j].platform
          /\ Stored[i].outcome = Stored[j].outcome
          /\ Stored[i].price + Stored[j].price < 100

\* C13: every emitted Opportunity has prices summing strictly below 1.0 and
\* profitMargin = (1 - total) / total * 100; a sum of exactly 1.0 or more
\* yields none.
C13_DetectorThreshold ==
    \A k \in 1..Len(Emitted) :
        LET o == Emitted[k]
            total == o.market1.price + o.market2.price
        IN  /\ total < 100
            /\ ~o.profitMargin.null
            /\ o.profitMargin.den > 0
            /\ o.profitMargin.num * total = (100 - total) * 100 * o.profitMargin.den

\* a pass has listed an Opportunity and none for a pair of different
\* platforms and outcomes whose prices sum to exactly 1.0
C13_Witness ==
    /\ lastPass.count > 0
    /\ Len(Emitted) > 0
    /\ Current(Emitted)
    /\ \E i, j \in 1..Len(Stored) :
          /\ i < j
          /\ Stored[i].platform # Stored[j].platform
          /\ Stored[i].outcome # Stored[j].outcome
          /\ Stored[i].price + Stored[j].price = 100
          /\ \A k \in 1..Len(Emitted) : ~(Emitted[k].i = i /\ Emitted[k].j = j)

\* the pairs of the bets given that form a profitable hedge
Qualifying ==
    {p \in (1..Len(Stored)) \X (1..Len(Stored)) :
        /\ p[1] < p[2]
        /\ Stored[p[1]].platform # Stored[p[2]].platform
        /\ Stored[p[1]].outcome # Stored[p[2]].outcome
        /\ Stored[p[1]].price + Stored[p[2]].price < 100}

\* C14: a detection pass emits exactly one Opportunity for every unordered pair
\* of stored bets with different platforms, different outcomes and prices
\* summing to less than 1.0.
C14_DetectorComplete ==
    /\ Len(Emitted) = Cardinality(Qualifying)
    /\ \A p \in Qualifying :
          \E k \in 1..Len(Emitted) :
              /\ Emitted[k].market1 = Stored[p[1]]
              /\ Emitted[k].market2 = Stored[p[2]]

\* the scenario of the claim: one platform at Yes 0.55 / No 0.45, the other
\* at Yes 0.40 / No 0.60, and the one Opportunity (No 0.45, Yes 0.40) of total
\* 0.85 and margin 1500/85 = 17.65%
C14_Witness ==
    /\ lastPass.count > 0
    /\ lastPass.bets = << [key |-> 1, value |-> BetArray("polymarket", 1, <<55, 45>>)],
                          [key |-> 2, value |-> BetArray("kalshi", 2, <<40, 60>>)] >>
    /\ Len(Emitted) = 1
    /\ Emitted[1].market1 = lastPass.bets[1].value[2]
    /\ Emitted[1].market2 = lastPass.bets[2].value[1]
    /\ Emitted[1].profitMargin.num = 1500
    /\ Emitted[1].profitMargin.den = 85

\* C15: the Opportunity list is rebuilt by each detection pass from the bets
\* stored at that moment: every entry pairs bets now stored, none is listed
\* twice, and nothing of the previous list is carried over.
C15_Rebuilt ==
    /\ Current(Emitted)
    /\ \A k, l \in 1..Len(Emitted) :
          Emitted[k].i = Emitted[l].i /\ Emitted[k].j = Emitted[l].j => k = l

\* a second pass has emptied a list that held an Opportunity, its bets having
\* been overwritten in between
C15_Witness ==
    /\ lastPass.count >= 2
    /\ lastPass.before > 0
    /\ Emitted = <<>>
    /\ Len(lastPass.bets) = 2

----------------------------------------------------------------------------
(* Claims about the transformer *)

\* the status the mapping of the specification gives a record
SpecifiedStatus(r) ==
    IF r.closed = "true" \/ r.archived = "true" THEN "closed"
    ELSE IF r.active = "true" /\ r.accepting_orders = "true" THEN "active"
    ELSE IF r.active = "true" /\ r.accepting_orders # "true" THEN "suspended"
    ELSE "active"

\* C16: status mapping over every combination of the closed, archived, active
\* and accepting_orders flags: closed or archived gives Closed; otherwise
\* active and accepting orders gives Active; otherwise active but not
\* accepting orders gives Suspended; every remaining combination gives Active.
C16_StatusMapping ==
    \A k \in 1..Len(transformed) :
        transformed[k].status = SpecifiedStatus(transformed[k].input)

\* the sum of the prices extracted from the record observed
PriceSumOf(t) == t.prices[1].yesPrice + t.prices[1].noPrice

\* C17: isMarketValid is true exactly when the market is active, not closed,
\* not archived and accepting orders, its Yes and No prices can be extracted,
\* their sum lies in [0.8, 1.2], bounds included, and the liquidity is absent
\* or at least 100.
C17_Validation ==
    \A k \in 1..Len(transformed) :
        LET t == transformed[k] IN
        t.valid <=>
            /\ t.input.active = "true"
            /\ t.input.closed # "true"
            /\ t.input.archived # "true"
            /\ t.input.accepting_orders = "true"
            /\ t.prices # <<>>
            /\ PriceSumOf(t) >= 80
            /\ PriceSumOf(t) <= 120
            /\ t.input.liquidity = <<>> \/ t.input.liquidity[1] >= 100

\* the price sum of the record observed is within the band when it is added
\* up and compared in doubles
SumOfDoublesInBand(t) ==
    /\ ~SumLess(t.prices[1].yesPrice, t.prices[1].noPrice, 80)
    /\ ~SumGreater(t.prices[1].yesPrice, t.prices[1].noPrice, 120)

\* what isMarketValid does: the conditions of C17 with the sum of the prices
\* taken as the double the program adds up (0.4 + 0.4 is 0.8 and valid,
\* 0.7 + 0.1 is 0.7999999999999999 and not)
C17_ValidationOfDoubles ==
    \A k \in 1..Len(transformed) :
        LET t == transformed[k] IN
        t.valid <=>
            /\ t.input.active = "true"
            /\ t.input.closed # "true"
            /\ t.input.archived # "true"
            /\ t.input.accepting_orders = "true"
            /\ t.prices # <<>>
            /\ SumOfDoublesInBand(t)
            /\ t.input.liquidity = <<>> \/ t.input.liquidity[1] >= 100

\* a market quoted at a sum of exactly 0.8 with a liquidity of exactly 100 is valid
C17_Witness ==
    /\ transformed # <<>>
    /\ transformed[1].valid
    /\ PriceSumOf(transformed[1]) = 80
    /\ transformed[1].input.liquidity = <<100>>

\* two names are equal up to the case of their letters
SameName(a, b) ==
    /\ Len(a) = Len(b)
    /\ \A i \in 1..Len(a) :
          \/ a[i] = b[i]
          \/ \E k \in DOMAIN UpperCase :
                {a[i], b[i]} = {UpperCase[k], LowerCase[k]}

\* the tokens of the record named yes and no that carry a price
PricedTokens(r, name) ==
    IF r.tokens = <<>> THEN {}
    ELSE {i \in 1..Len(r.tokens[1]) :
            /\ SameName(r.tokens[1][i].outcome, name)
            /\ r.tokens[1][i].price # <<>>}

\* the element lists whose text outcomePrices is, with two numeric elements first
PricedElements(r) ==
    {es \in ElementLists :
        /\ r.outcomePrices = <<ArrayText(WrittenOf(es))>>
        /\ Len(es) >= 2
        /\ es[1].price # <<>>
        /\ es[2].price # <<>>}

\* what the ordered fallback of the specification extracts from a record
SpecifiedPrices(r) ==
    IF PricedTokens(r, <<"y", "e", "s">>) # {} /\ PricedTokens(r, <<"n", "o">>) # {}
    THEN LET y == r.tokens[1][CHOOSE i \in PricedTokens(r, <<"y", "e", "s">>) : TRUE]
             n == r.tokens[1][CHOOSE i \in PricedTokens(r, <<"n", "o">>) : TRUE]
         IN  << [yesPrice |-> y.price[1], noPrice |-> n.price[1],
                 yesTokenId |-> <<y.token_id>>, noTokenId |-> <<n.token_id>>] >>
    ELSE IF PricedElements(r) # {}
         THEN LET es == CHOOSE es \in PricedElements(r) : TRUE
                  paired == r.clobTokenIds = <<TwoTokenIds>>
              IN  << [yesPrice |-> es[1].price[1], noPrice |-> es[2].price[1],
                      yesTokenId |-> IF paired THEN << <<"1", "1">> >> ELSE <<>>,
                      noTokenId |-> IF paired THEN << <<"2", "2">> >> ELSE <<>>] >>
         ELSE <<>>

\* C18: price extraction is an ordered fallback: the prices of the tokens
\* named yes and no (in any case) when both carry a price; otherwise the first
\* two elements of the stringified array outcomePrices when it has two numeric
\* elements, with the token ids paired from clobTokenIds; otherwise null. It
\* never throws.
C18_PriceExtraction ==
    \A k \in 1..Len(transformed) :
        transformed[k].prices = SpecifiedPrices(transformed[k].input)

\* tokens that give no price, and prices and token ids taken from the two
\* stringified arrays
C18_Witness ==
    /\ transformed # <<>>
    /\ transformed[1].input.tokens # <<>>
    /\ PricedTokens(transformed[1].input, <<"y", "e", "s">>) = {}
    /\ transformed[1].prices # <<>>
    /\ transformed[1].prices[1].yesPrice = 55
    /\ transformed[1].prices[1].noPrice = 45
    /\ transformed[1].prices[1].yesTokenId = << <<"1", "1">> >>

\* C19: transformToBets yields no bet or exactly two, a YES and a NO bet of
\* the record's market id, and it yields the two exactly when transformMarket
\* yields a Market.
C19_Lockstep ==
    \A k \in 1..Len(transformed) :
        LET t == transformed[k] IN
        /\ Len(t.bets) \in {0, 2}
        /\ Len(t.bets) = 2 =>
              /\ t.bets[1].outcome = "YES"
              /\ t.bets[2].outcome = "NO"
              /\ t.bets[1].marketId = t.input.id
              /\ t.bets[2].marketId = t.input.id
        /\ Len(t.bets) = 2 <=> Len(t.market) = 1
        /\ Len(t.market) = 1 => t.market[1].id = t.input.id

\* a record without tokens whose outcomePrices gives prices: a Market and its
\* two bets
C19_Witness ==
    /\ transformed # <<>>
    /\ transformed[1].input.tokens = <<>>
    /\ transformed[1].prices # <<>>
    /\ Len(transformed[1].market) = 1
    /\ Len(transformed[1].bets) = 2

\* C21: every bet the transformer produces for a record that passes
\* validation has a price within [0, 1] and a displayPrice equal to its price
\* times 100, hence within [0, 100].
C21_ValueRanges ==
    \A k \in 1..Len(transformed) :
        transformed[k].valid =>
            \A i \in 1..Len(transformed[k].bets) :
                LET bet == transformed[k].bets[i] IN
                /\ bet.price >= 0
                /\ bet.price <= 100
                /\ bet.displayPrice = bet.price * 100
                /\ bet.displayPrice >= 0
                /\ bet.displayPrice <= 100 * 100

\* the record that carries the prices of r's tokens as a stringified
\* outcomePrices array instead, and is otherwise r
AsOutcomePrices(r) ==
    LET Written(prices) ==
            Some(ArrayText(<<Quoted(NumberToString(prices[1].yesPrice)),
                             Quoted(NumberToString(prices[1].noPrice))>>))
    IN  [r EXCEPT !.tokens = None,
                  !.outcomePrices = Written(PricesFromTokens(r))]

\* C24: a record that carries its Yes and No prices as tokens and the
\* otherwise identical record that carries the same prices as a stringified
\* outcomePrices array transform to equal Markets and equal YES and NO bets.
C24_EncodingEquivalence ==
    \A k \in 1..Len(transformed) :
        PricesFromTokens(transformed[k].input) # None =>
            /\ transformMarket(AsOutcomePrices(transformed[k].input))
                  = transformed[k].market
            /\ transformToBets(AsOutcomePrices(transformed[k].input))
                  = transformed[k].bets

\* a record priced 0.55 and 0.45 by its tokens: its Market and its two bets
\* are those of the record whose outcomePrices is ["0.55", "0.45"]
C24_Witness ==
    /\ transformed # <<>>
    /\ PricesFromTokens(transformed[1].input) # None
    /\ Len(transformed[1].bets) = 2
    /\ transformed[1].bets[1].price = 55
    /\ transformed[1].bets[2].price = 45
    /\ AsOutcomePrices(transformed[1].input).outcomePrices
          = Some(ArrayText(<<Quoted(<<"0", ".", "5", "5">>),
                             Quoted(<<"0", ".", "4", "5">>)>>))
    /\ Len(transformToBets(AsOutcomePrices(transformed[1].input))) = 2

\* the records of a batch that are not dropped, in input order
KeptOf(batch) == SelectSeq(batch, LAMBDA r : SpecifiedPrices(r) # <<>>)

\* the Markets of the batch observed are those of its kept records, in order
MarketsKept(t) ==
    /\ Len(t.markets) = Len(KeptOf(t.input))
    /\ \A i \in 1..Len(t.markets) :
          <<t.markets[i]>> = transformMarket(KeptOf(t.input)[i])

\* C25 as stated: the batch methods drop the records from which no prices can
\* be extracted and transform every other record in input order, so that the
\* output count of each is the input count minus the number of dropped records.
C25_BatchDrops ==
    \A k \in 1..Len(transformed) :
        LET t == transformed[k] IN
        /\ MarketsKept(t)
        /\ Len(t.betsMap) = Len(KeptOf(t.input))
        /\ \A i \in 1..Len(t.betsMap) :
              /\ t.betsMap[i].key = KeptOf(t.input)[i].id
              /\ t.betsMap[i].value = transformToBets(KeptOf(t.input)[i])

\* the position of the first record of a batch with the id
FirstOf(batch, id) ==
    CHOOSE i \in 1..Len(batch) :
        batch[i].id = id /\ \A j \in 1..(i - 1) : batch[j].id # id

\* C25, amended: transformMarkets returns the Markets of the kept records in
\* input order, one per kept record; transformMarketsToBets returns a Map with
\* one entry per id of the kept records, in the order the ids first occur,
\* holding the bets of the last kept record of that id, so that its count is
\* the input count minus the dropped records only when no two kept records
\* share an id.
C25_BatchDropsPerId ==
    \A k \in 1..Len(transformed) :
        LET t == transformed[k] IN
        /\ MarketsKept(t)
        /\ OneEntryPerKey(t.betsMap)
        /\ {t.betsMap[i].key : i \in 1..Len(t.betsMap)} = IdsOf(KeptOf(t.input))
        /\ \A i \in 1..Len(t.betsMap) :
              /\ t.betsMap[i].value
                    = transformToBets(LastOf(KeptOf(t.input), t.betsMap[i].key))
              /\ \A j \in (i + 1)..Len(t.betsMap) :
                    FirstOf(KeptOf(t.input), t.betsMap[i].key)
                        < FirstOf(KeptOf(t.input), t.betsMap[j].key)

\* a batch of two records of which the first has no prices: one Market and
\* one entry of bets, those of the second record
C25_Witness ==
    /\ transformed # <<>>
    /\ Len(transformed[1].input) = 2
    /\ SpecifiedPrices(transformed[1].input[1]) = <<>>
    /\ Len(transformed[1].markets) = 1
    /\ transformed[1].markets[1].id = transformed[1].input[2].id
    /\ Len(transformed[1].betsMap) = 1
    /\ transformed[1].betsMap[1].value = transformToBets(transformed[1].input[2])

----------------------------------------------------------------------------
(* Claims about the capital functions *)

\* the sum of the prices of the two bets observed
TotalOf(c) == c.bet1.price + c.bet2.price

\* C22: each of calculateRequiredCapital, calculateStakeAllocation and
\* calculateExpectedProfit, called with two bets whose prices sum to 1.0 or
\* more, fails with an error and returns no value.
C22_FailsLoudly ==
    \A k \in 1..Len(computed) :
        TotalOf(computed[k]) >= 100 =>
            /\ computed[k].requiredCapital.threw
            /\ computed[k].allocation.threw
            /\ computed[k].expectedProfit.threw

\* the Number of a whole number
Whole(n) == NumberOf(100 * n)

\* two Numbers are doubles and the same double
Same(x, y, scale) ==
    /\ x.kind = "finite"
    /\ y.kind = "finite"
    /\ x = y

\* the binary digits of a significand that rounding may change: x and y
\* agree up to rounding when they differ by no more than the scale divided
\* by 2 ^ (SignificandBits - RoundedDigits)
RoundedDigits == SignificandBits \div 8

\* a magnitude divided by 2 ^ count, cut at the last place
Lowered(bits, count) ==
    [p \in 1..Len(bits) |-> IF p > count THEN bits[p - count] ELSE 0]

\* two Numbers are doubles that agree up to rounding, for amounts of the scale
UpToRounding(x, y, scale) ==
    /\ x.kind = "finite"
    /\ y.kind = "finite"
    /\ scale.kind = "finite"
    /\ ~MagnitudeLess(Lowered(scale.magnitude, SignificandBits - RoundedDigits),
                      DoubleDifference(x, y).magnitude)

\* what a stake pays when its side resolves true: the stake over the price
PayoutOf(stake, price) == DoubleQuotient(stake, NumberOf(price))

\* the stakes and the profit of the computation c are those of the claim,
\* Agree saying when two amounts are equal: stake = C * p / total is read as
\* stake * total = C * p, with total, C * p and C * (1 - total) the exact
\* decimals
Sized(c, Agree(_, _, _)) ==
    LET C == c.totalCapital
        p1 == c.bet1.price
        p2 == c.bet2.price
        stake1 == c.allocation.stake1
        stake2 == c.allocation.stake2
        profit == c.expectedProfit.value
    IN  /\ ~c.allocation.threw
        /\ Agree(DoubleProduct(stake1, NumberOf(p1 + p2)),
                 NumberOf(C * p1), NumberOf(C * p1))
        /\ Agree(DoubleProduct(stake2, NumberOf(p1 + p2)),
                 NumberOf(C * p2), NumberOf(C * p2))
        /\ Agree(NumberSum(stake1, stake2), Whole(C), Whole(C))
        /\ Agree(PayoutOf(stake1, p1), PayoutOf(stake2, p2), PayoutOf(stake1, p1))
        /\ Agree(DoubleProduct(profit, NumberOf(p1 + p2)),
                 NumberOf(C * (100 - (p1 + p2))), NumberOf(C * (100 - (p1 + p2))))
        /\ Agree(profit, DoubleDifference(PayoutOf(stake1, p1), Whole(C)),
                 PayoutOf(stake1, p1))

----------------------------------------------------------------------------
(* Claims about clearCache *)

\* call c is the first getOrFetch for its key that started after clear j
FirstAfterClear(c, j) ==
    /\ calls[c].clears >= j
    /\ \A d \in 1..(c - 1) : calls[d].key = calls[c].key => calls[d].clears < j

\* a clearCache step leaves no entry for any key
C26_Step == Len(clears') > Len(clears) => DOMAIN cache' = {}

\* the first getOrFetch for a key after a clear is a miss that invoked its
\* fetcher
C26_NextMisses ==
    \A j \in 1..Len(clears) : \A c \in 1..Len(calls) :
        FirstAfterClear(c, j) =>
            /\ ~calls[c].hit
            /\ \E i \in 1..Len(fetches) : fetches[i].call = c

\* C26: clearCache empties the cache: right after it returns no key has an
\* entry, and the next getOrFetch for any key is a miss that invokes its
\* fetcher, even if a fresh entry existed before the clear.
C26_ClearForcesRefresh == [][C26_Step]_vars /\ []C26_NextMisses

\* what the code does guarantee: the first getOrFetch for a key after a clear
\* is a hit only on an entry stored after the clear by a fetch that began
\* before it
C26_MissUnlessRefilled ==
    \A j \in 1..Len(clears) : \A c \in 1..Len(calls) :
        FirstAfterClear(c, j) /\ calls[c].hit =>
            /\ calls[c].seen.timestamp >= clears[j]
            /\ calls[calls[c].seen.data].clears < j

\* C33: a getOrFetch call that starts after a clearCache returns no value
\* whose fetch began before that clear, and the cache holds no entry stored by
\* a fetch that began before the latest clear.
C33_NoPreClearResults ==
    /\ \A c \in 1..Len(calls) :
           calls[c].st = "returned" =>
               calls[calls[c].ret].clears = calls[c].clears
    /\ \A k \in DOMAIN cache :
           calls[cache[k].data].clears = Len(clears)

\* what the code does guarantee: a value returned after a clear stems from a
\* fetch that began before it only if that fetch resolved after the clear
C33_OnlyInFlight ==
    \A c \in 1..Len(calls) :
        calls[c].st = "returned" /\ calls[calls[c].ret].clears < calls[c].clears =>
            /\ calls[c].hit
            /\ calls[c].seen.timestamp >= clears[calls[c].clears]

----------------------------------------------------------------------------
(* Claims about the reading methods *)

\* a step in which a reading method was called
ReadStep == reads'.count > reads.count

\* what that call returned
Returned == reads'.last[1].value

\* the operations enqueued and not yet dispatched
Undispatched ==
    {o \in 1..enqCount : \A k \in 1..Len(dispatched) : dispatched[k].op # o}

\* the dispatches of the last 60 seconds
DispatchedLately ==
    {k \in 1..Len(dispatched) : dispatched[k].at > now - WindowMs}

C27_Step ==
    ReadStep =>
        /\ UNCHANGED rlVars
        /\ Returned.queueLength = Cardinality(Undispatched)
        /\ Returned.requestsInLastMinute = Cardinality(DispatchedLately)
        /\ Returned.requestsInLastMinute <= maxRequestsPerMinute
        /\ Returned.processing = (loops # <<>>)

\* C27: getStatus changes no limiter state and reports queueLength as the
\* number of enqueued operations not yet dispatched, requestsInLastMinute as
\* the number of dispatches within the last 60 seconds, never above the quota,
\* and processing as true exactly while a drain loop is active.
C27_StatusReports == [][C27_Step]_vars

\* a status read while a loop is active, operations wait and the window is full
C27_Witness ==
    /\ reads.last # <<>>
    /\ reads.last[1].method = "getStatus"
    /\ reads.last[1].value.processing
    /\ reads.last[1].value.queueLength > 0
    /\ reads.last[1].value.requestsInLastMinute = maxRequestsPerMinute

\* a step in which a cycle ends with its detection pass
DetectionStep ==
    \E c \in 1..Len(cycles) : ~cycles[c].detected /\ cycles'[c].detected

\* a getter leaves the scanner as it is; the Maps change only in a store of a
\* scan, the Opportunity list only in a detection pass
C28_Step ==
    /\ ReadStep => UNCHANGED scanVars
    /\ markets' # markets \/ bets' # bets =>
           /\ ~ReadStep
           /\ \E c \in 1..Len(cycles) : StoreStep(c)
           /\ UNCHANGED arbitrageOpportunities
    /\ arbitrageOpportunities' # arbitrageOpportunities =>
           ~ReadStep /\ DetectionStep /\ UNCHANGED <<markets, bets>>

\* every collection a getter returned contains what it contained when returned
C28_Kept == \A k \in 1..Len(reads.last) : ObjectNow(reads.last[k]) = reads.last[k].value

\* C28: getMarkets, getBetsForMarket and getArbitrageOpportunities never
\* modify scanner state (only a store of a scan writes the Maps, only
\* detection writes the Opportunity list), and a collection they returned is
\* never changed by a later scan, which replaces lists instead of editing them.
C28_ReadsDuringScans == [][C28_Step]_vars /\ []C28_Kept

\* the bets of a market were returned while a cycle was in progress, and its
\* scan then stored other bets for that market
C28_Witness ==
    /\ reads.last # <<>>
    /\ reads.last[1].method = "getBetsForMarket"
    /\ reads.last[1].value # <<>>
    /\ ~reads.last[1].held
    /\ \E i \in 1..Len(bets) :
           bets[i].key = reads.last[1].arg /\ bets[i].value # reads.last[1].value

\* the list of opportunities was returned, and a later detection pass
\* assigned a new list
C28_ListReplaced ==
    /\ reads.last # <<>>
    /\ reads.last[1].method = "getArbitrageOpportunities"
    /\ ~reads.last[1].held

----------------------------------------------------------------------------
(* Claims about the pace of the RateLimiter *)

\* C29: any two consecutive dispatches are at least minDelayMs apart, also
\* when the second operation is enqueued right after the first one completed
\* and the queue had drained.
C29_MinimumSpacing ==
    \A i \in 2..Len(dispatched) :
        dispatched[i].at - dispatched[i - 1].at >= minDelayMs

\* the operations that completed within the 60 seconds up to the completion
\* of dispatch i
CompletedInWindow(i) ==
    {j \in 1..Len(dispatched) :
        /\ dispatched[j].doneAt # NotDone
        /\ dispatched[j].doneAt <= dispatched[i].doneAt
        /\ dispatched[j].doneAt > dispatched[i].doneAt - WindowMs}

\* the completed dispatches
Completed == {i \in 1..Len(dispatched) : dispatched[i].doneAt # NotDone}

\* C30 as stated: no more than maxRequestsPerMinute operations complete within
\* any sliding 60-second window, whatever the operations' durations.
C30_CompletionsPerWindow ==
    \A i \in Completed :
        Cardinality(CompletedInWindow(i)) <= maxRequestsPerMinute

\* C30, amended: the limiter counts dispatches, and runs one operation at a
\* time, so a sliding 60-second window holds the completions of at most
\* maxRequestsPerMinute operations dispatched within it and of one operation
\* dispatched before it: at most maxRequestsPerMinute + 1 completions.
C30_CompletionsOfWindowAndOneBefore ==
    \A i \in Completed :
        /\ Cardinality(CompletedInWindow(i)) <= maxRequestsPerMinute + 1
        /\ Cardinality({j \in CompletedInWindow(i) :
               dispatched[j].at > dispatched[i].doneAt - WindowMs})
             <= maxRequestsPerMinute

\* a window with maxRequestsPerMinute + 1 completions, the first of them of an
\* operation that ran for a while
C30_Witness ==
    \E i \in Completed :
        /\ Cardinality(CompletedInWindow(i)) = maxRequestsPerMinute + 1
        /\ \E j \in CompletedInWindow(i) : dispatched[j].doneAt > dispatched[j].at

----------------------------------------------------------------------------
(* Claims about RateLimiter.clear *)

\* operation o was started while an operation dispatched before it was running
StartedDuring(i, j) ==
    /\ i < j
    /\ \/ dispatched[i].doneAt = NotDone /\ opState[dispatched[i].op] = "running"
       \/ dispatched[i].doneAt > dispatched[j].at

\* C31: a clear called while a drain loop runs resets the limiter to idle: the
\* old loop dispatches nothing after the clear, at most one drain loop serves
\* the enqueue calls made after it, and the single-worker invariant, the FIFO
\* order, the serial execution and the quota hold after any interleaving of
\* enqueue and clear.
C31_ClearResets ==
    /\ \A i \in 1..Len(dispatched) : ~dispatched[i].byOld
    /\ Cardinality({i \in 1..Len(loops) : ~loops[i].old}) <= 1
    /\ processing => Len(loops) >= 1
    /\ \A i, j \in 1..Len(dispatched) :
           /\ i < j => dispatched[i].op < dispatched[j].op
           /\ ~StartedDuring(i, j)
    /\ C1_QuotaPerWindow

\* the parts of C31 that the code keeps: operations are dispatched in the order
\* of their enqueue calls, each at most once
C31_FifoKept ==
    \A i, j \in 1..Len(dispatched) : i < j => dispatched[i].op < dispatched[j].op

\* C32: every promise enqueue returned eventually resolves or rejects, also
\* the promises of the operations that waited in the queue when clear() was
\* called.
C32_EveryPromiseSettles ==
    \A o \in Ops :
        (promise[o] = "pending") ~> (promise[o] \in {"resolved", "rejected"})

\* what the code does guarantee: the promise of every operation that clear()
\* did not discard settles
C32_UndroppedSettle ==
    \A o \in Ops :
        (promise[o] = "pending") ~>
            (promise[o] \in {"resolved", "rejected"} \/ opState[o] = "dropped")

----------------------------------------------------------------------------
(* Claims about overlapping scan cycles *)

\* no scanAllPlatforms call is in progress
Quiescent == \A c \in 1..Len(cycles) : cycles[c].pc # "awaitAll"

\* the Opportunity list is what detection makes of the stored bets
Detected == arbitrageOpportunities = detectArbitrageOpportunities(bets)

\* a cycle that ends leaves the list detection makes of the bets then stored,
\* and bets are stored only while the cycle that fetched them is in progress
C34_Step ==
    /\ \A c \in 1..Len(cycles) :
           cycles[c].pc = "awaitAll" /\ cycles'[c].pc = "done" =>
               arbitrageOpportunities' = detectArbitrageOpportunities(bets')
    /\ bets' # bets =>
           \E c \in 1..Len(cycles) :
               /\ cycles[c].pc = "awaitAll" /\ cycles'[c].pc = "awaitAll"
               /\ cycles[c].status["polymarket"] = "fetching"
               /\ cycles'[c].status["polymarket"] = "resolved"

\* the list is the one the latest detection pass made, and that pass read
\* the bets now stored: no store came after it
LatestPassReadAll ==
    cycles # <<>> =>
        /\ lastPass.count > 0
        /\ lastPass.bets = bets
        /\ lastPass.list = arbitrageOpportunities

\* C34: whenever no scan cycle is in progress, the Opportunity list equals the
\* result of detection over the bets currently stored, also when two cycles
\* overlapped and their stores and detection passes interleaved in any order.
C34_QuiescentConsistency ==
    /\ [](Quiescent => Detected /\ LatestPassReadAll)
    /\ [][C34_Step]_vars

\* two cycles overlapped, the later one stored first and both have ended
C34_Witness ==
    /\ Len(cycles) = 2
    /\ cycles[2].overlaps
    /\ Quiescent
    /\ cycles[1].detected /\ cycles[2].detected
    /\ Len(bets) = MaxMarkets
    /\ Detected

\* the keys of a Map
KeysOf(m) == {m[i].key : i \in 1..Len(m)}

\* C35: after any sequence of scans, successful, failed or overlapping, the
\* market Map and the bet Map hold the same market ids, every market is stored
\* under its id, and every bet list holds exactly two bets, a YES and a NO one,
\* whose marketId is its key.
C35_MapsAligned ==
    /\ KeysOf(markets) = KeysOf(bets)
    /\ \A i \in 1..Len(markets) : markets[i].value.id = markets[i].key
    /\ \A i \in 1..Len(bets) :
           /\ Len(bets[i].value) = 2
           /\ bets[i].value[1].outcome = "YES"
           /\ bets[i].value[2].outcome = "NO"
           /\ \A n \in 1..2 : bets[i].value[n].marketId = bets[i].key

\* two overlapping cycles have ended, one of them failed, and the other stored
\* a batch of several markets
C35_Witness ==
    /\ Len(cycles) = 2
    /\ cycles[2].overlaps
    /\ Quiescent
    /\ \E c \in 1..2 : cycles[c].status["polymarket"] = "failed"
    /\ Cardinality(KeysOf(markets)) = MaxMarkets
    /\ Cardinality(KeysOf(bets)) = MaxMarkets

----------------------------------------------------------------------------
(* Claims about the upstream traffic *)

\* a step in which healthCheck sent its request
HealthStep == ReadStep /\ reads'.last[1].method = "healthCheck"

\* a step in which the request of an enqueued operation was sent
OperationStep == \E o \in Ops : opState[o] # "running" /\ opState'[o] = "running"

\* a step that sends an HTTP request is a dispatch of the RateLimiter, which
\* counts it in its 60-second window
C36_Step ==
    HealthStep \/ OperationStep =>
        /\ Len(dispatched') = Len(dispatched) + 1
        /\ dispatched'[Len(dispatched')].at = now
        /\ Len(RecentRequests(requestTimestamps', now)) =
               Len(RecentRequests(requestTimestamps, now)) + 1

\* C36: every HTTP request PolymarketService sends upstream, the one of
\* healthCheck included, is dispatched through the RateLimiter and counted in
\* its 60-second window.
C36_AllThrottled == [][C36_Step]_vars

\* what the code does guarantee: the requests of the enqueued operations are
\* dispatched and counted
C36_OperationsThrottled ==
    [][OperationStep =>
        /\ Len(dispatched') = Len(dispatched) + 1
        /\ dispatched'[Len(dispatched')].at = now
        /\ Len(RecentRequests(requestTimestamps', now)) =
               Len(RecentRequests(requestTimestamps, now)) + 1]_vars

----------------------------------------------------------------------------
(* Claims about the sources of the scanner *)

\* the pairs detection compares
PairsOf(allBets) == {p \in (1..Len(allBets)) \X (1..Len(allBets)) : p[1] < p[2]}

\* bets i and j would make an opportunity: their margin is positive
Profitable(allBets, i, j) ==
    /\ ~calculateArbitrage(allBets[i], allBets[j]).null
    /\ calculateArbitrage(allBets[i], allBets[j]).num > 0

\* C37: only the Polymarket scan stores bets, so every stored bet has platform
\* polymarket, detection skips every pair as same-platform, and the
\* Opportunity list is empty after every scan cycle, whatever the prices.
C37_NoOpportunities ==
    /\ \A i \in 1..Len(FlatBets(bets)) : FlatBets(bets)[i].platform = "polymarket"
    /\ \A p \in PairsOf(FlatBets(bets)) :
           OpportunityAt(FlatBets(bets), p[1], p[2]) = <<>>
    /\ arbitrageOpportunities = <<>>

\* a cycle has ended over stored bets of which two have a positive margin
C37_Witness ==
    /\ \E c \in 1..Len(cycles) : cycles[c].pc = "done" /\ cycles[c].detected
    /\ \E p \in PairsOf(FlatBets(bets)) : Profitable(FlatBets(bets), p[1], p[2])
    /\ arbitrageOpportunities = <<>>

----------------------------------------------------------------------------
(* Claims about getActiveMarkets *)

\* the upstream record a returned market was made of
RecordOf(read, market) ==
    CHOOSE rec \in {read.from[k] : k \in 1..Len(read.from)} : rec.id = market.id

ActiveReads ==
    {[limit |-> calls[k].arg, hit |-> calls[k].hit, from |-> calls[k].from,
      value |-> calls[k].value] :
        k \in {x \in 1..Len(calls) :
                  calls[x].method = "getActiveMarkets" /\ calls[x].st = "returned"}}

\* C38: getActiveMarkets(limit) returns at most `limit` markets; every
\* returned market whose upstream record reports a liquidity has a liquidity
\* of at least 1000, and every one whose record reports a 24-hour volume, a
\* volume of 0 included, has a 24-hour volume of at least 500.
C38_MinimumCriteria ==
    \A read \in ActiveReads :
        /\ Len(read.value) <= read.limit
        /\ \A k \in 1..Len(read.value) :
               LET rec == RecordOf(read, read.value[k]) IN
               /\ rec.liquidity # None => rec.liquidity[1] >= MIN_LIQUIDITY
               /\ rec.volume_24hr # None => rec.volume_24hr[1] >= MIN_VOLUME_24HR

\* what holds of the code: the limit, the liquidity minimum, and the volume
\* minimum for every reported volume other than 0
C38_NonzeroVolumes ==
    \A read \in ActiveReads :
        /\ Len(read.value) <= read.limit
        /\ \A k \in 1..Len(read.value) :
               LET rec == RecordOf(read, read.value[k]) IN
               /\ rec.liquidity # None => rec.liquidity[1] >= MIN_LIQUIDITY
               /\ (rec.volume_24hr # None /\ rec.volume_24hr[1] # 0)
                      => rec.volume_24hr[1] >= MIN_VOLUME_24HR

=============================================================================
